---- MODULE Spec2Model ----
(***************************************************************************)
(* A model of the hogan serving core: the branch-head resolver             *)
(* (src/app/head_actor.rs), the tiered cache facade                         *)
(* (src/storage/multi.rs) and the environment lookup of the HTTP server    *)
(* (src/app/server.rs, src/app/db.rs).                                      *)
(***************************************************************************)
EXTENDS Integers, Sequences, FiniteSets, TLC

(***************************************************************************)
(* Bounds of the model.                                                    *)
(***************************************************************************)
MaxQueries == 3

Branches == {"master", "dev"}

\* What find_branch_head can give the worker: a sha or an error.
WorkerResults == {"1234567", "UnknownBranch"}

NoId == 0

VARIABLES
    \* ---- head resolver (src/app/head_actor.rs) ----
    queries,        \* HeadRequestHolder.queries: branch -> waiters (partial map)
    request_ids,    \* HeadRequestHolder.request_ids: branch -> id (partial map)
    holderMailbox,  \* messages sent to the holder, in arrival order
    workerMailbox,  \* PerformQuery messages sent to the worker
    timers,         \* QueryTimeout messages scheduled and not yet due
    nextId,         \* the ids Uuid::new_v4 has handed out so far
    asked,          \* ask() calls made so far: each has its own reply actor
    replies,        \* reply actor -> the values it was told, in order
    attached,       \* reply actor -> the request id it was registered under
    performCount,   \* request id -> PerformQuery messages dispatched with it
    timeoutCount,   \* request id -> QueryTimeout messages scheduled with it
    handled,        \* messages the holder's recv has processed
    dropped,        \* outdated messages the holder dropped, each with the id
                    \* that was pending for its branch at that moment
    \* ---- tiered cache facade (src/storage/multi.rs) ----
    caches,         \* MultiCache.caches: the tiers, in list order
    mcLast,         \* the last call on the facade: what was asked, what it
                    \* returned and the tier operations it made, in order
    \* ---- environment lookup (src/app/server.rs, src/app/db.rs) ----
    environments,   \* ServerState.environments: the LRU of environments,
                    \* least recently used first
    environment_listings, \* ServerState.environment_listings, likewise
    db,             \* the rows of the sqlite table hogan
    head,           \* the commit the working tree (HEAD) is at
    known,          \* the commits the local repository holds
    allow_fetch,    \* ServerState.allow_fetch
    write_lock,     \* ServerState.write_lock: the request holding it, or 0
    maintenance_count, \* FetchActor.maintenance_count
    tpc,            \* request thread -> where it is in get_env / get_env_listing
    treq,           \* request thread -> what it was asked
    tloc,           \* request thread -> its local variables
    tres,           \* request thread -> what its call returned
    expired,        \* request thread -> its call's wait for write_lock has
                    \* lasted longer than the bound the callers are promised
    refreshed,      \* the request threads that have called refresh
    \* ---- LRU tier (src/storage/lru.rs) ----
    lru,            \* the LruEnvCache: whether it was built, its capacity and
                    \* its two LRU maps, most recently used entry first
    lruTouched,     \* kind -> key -> the call that last read or wrote it
    lruCalls,       \* read and write calls made on the tier so far
    lruLast,        \* the last call on the tier and what it returned
    \* ---- sqlite tier (src/storage/sqlite.rs) ----
    table,          \* the rows of the table hogan: key, data, timestamp
    now,            \* the time, in ticks of the clock
    sqlPc,          \* writer -> where it is in its write call
    sqlReq,         \* writer -> the key and data it writes
    sqlLast,        \* the last call on the tier that returned, and its result
    \* ---- cleanup actor (src/storage/cache.rs) ----
    cleanupCaches,  \* CleanupActor.caches: each one the list of its tiers
    stale,          \* tier -> whether it holds an entry older than max_age
    sweeps,         \* the number of ExecuteCleanup messages handled
    sweepLog,       \* the clean calls and error lines of the last sweep
    \* ---- fetch actor (src/app/fetch_actor.rs) ----
    fetchTicks,     \* the number of ExecuteFetch messages handled
    maintenanceLog, \* the ticks in which perform_maintenance was called
    \* ---- POST transform/{sha}/{env} (src/app/server.rs) ----
    route,          \* request thread -> the transform request it serves
    headAsked,      \* the number of queries the route sent to the head resolver
    \* ---- functions without state (src/config.rs, src/storage/cache.rs,
    \*      src/app/server.rs, src/app/cli.rs) ----
    input,          \* the arguments of the call under consideration
    output,         \* what the call returned, or <<>> before it was made
    \* ---- head query worker and its clock (src/app/head_actor.rs) ----
    worker,         \* HeadQueryWorker: config, last_updated, allow_fetch
    clock,          \* SystemTime::now(), in ticks
    performed       \* the last PerformQuery the worker handled, with what
                    \* it read and what it passed to find_branch_head

headVars == <<queries, request_ids, holderMailbox, workerMailbox, timers,
              nextId, asked, replies, attached, performCount, timeoutCount,
              handled, dropped>>

multiVars == <<caches, mcLast>>

serveVars == <<environments, environment_listings, db, head, known,
               allow_fetch, write_lock, maintenance_count, tpc, treq, tloc,
               tres, expired, refreshed>>

lruVars == <<lru, lruTouched, lruCalls, lruLast>>

sqlVars == <<table, now, sqlPc, sqlReq, sqlLast>>

\* The storage tiers on their own.
cleanupVars == <<cleanupCaches, stale, sweeps, sweepLog>>

tierVars == <<lruVars, sqlVars, cleanupVars>>

fetchVars == <<fetchTicks, maintenanceLog>>

routeVars == <<route, headAsked>>

fnVars == <<input, output>>

workerVars == <<worker, clock, performed>>

vars == <<headVars, multiVars, serveVars, tierVars, fetchVars, routeVars,
          fnVars, workerVars>>

\* The head resolver's steps leave the other components alone.
HeadOnly ==
    UNCHANGED <<multiVars, serveVars, tierVars, fetchVars, routeVars, fnVars, workerVars>>

\* So do the steps of the tiered cache facade.
MultiOnly ==
    UNCHANGED <<headVars, serveVars, tierVars, fetchVars, routeVars, fnVars, workerVars>>

\* And those of the LRU tier and of the sqlite tier.
LruOnly ==
    UNCHANGED <<headVars, multiVars, serveVars, sqlVars, cleanupVars, fetchVars,
                routeVars, fnVars, workerVars>>
SqlOnly ==
    UNCHANGED <<headVars, multiVars, serveVars, lruVars, cleanupVars, fetchVars,
                routeVars, fnVars, workerVars>>
CleanupOnly ==
    UNCHANGED <<headVars, multiVars, serveVars, lruVars, sqlVars, fetchVars,
                routeVars, fnVars, workerVars>>

\* No server has been started: no caches, no repository, no request threads.
\* The fetch actor has handled no tick.
FetchIdle == fetchTicks = 0 /\ maintenanceLog = <<>>

\* No transform request has come in.
RouteIdle == route = <<>> /\ headAsked = 0

ServeIdle ==
    /\ FetchIdle /\ RouteIdle
    /\ environments = <<>> /\ environment_listings = <<>> /\ db = {}
    /\ head = <<>> /\ known = {} /\ allow_fetch = FALSE
    /\ write_lock = 0 /\ maintenance_count = 0
    /\ tpc = <<>> /\ treq = <<>> /\ tloc = <<>> /\ tres = <<>>
    /\ expired = <<>> /\ refreshed = {}

\* No LRU tier has been constructed.
LruIdle ==
    /\ lru = [state |-> "none", size |-> 0, env |-> <<>>, listing |-> <<>>]
    /\ lruTouched = <<>>
    /\ lruCalls = 0 /\ lruLast = <<>>

\* No sqlite tier is in use: no table, no writers.
SqlIdle ==
    /\ table = {} /\ now = 0
    /\ sqlPc = <<>> /\ sqlReq = <<>>
    /\ sqlLast = [n |-> 0, op |-> "", key |-> <<>>, result |-> <<>>]

\* No cleanup actor has been created.
CleanupIdle ==
    cleanupCaches = <<>> /\ stale = <<>> /\ sweeps = 0 /\ sweepLog = <<>>

TiersIdle == LruIdle /\ SqlIdle /\ CleanupIdle

\* No call of a function without state is under consideration.
FnIdle == input = <<>> /\ output = <<>>

\* The components that a specification of one component leaves out.
\* No head query worker has been created.
WorkerIdle == worker = <<>> /\ clock = 0 /\ performed = <<>>

OthersIdle == ServeIdle /\ TiersIdle /\ FnIdle /\ WorkerIdle

Clients == 1..MaxQueries
Ids == 1..MaxQueries

(***************************************************************************)
(* Messages of the head resolver.                                          *)
(***************************************************************************)
HeadQuery(b, c) ==
    [type |-> "HeadQuery", branch |-> b, id |-> NoId, sha |-> "", sender |-> c]

HeadResult(b, i, s) ==
    [type |-> "HeadResult", branch |-> b, id |-> i, sha |-> s, sender |-> 0]

PerformQuery(b, i) ==
    [type |-> "PerformQuery", branch |-> b, id |-> i, sha |-> "", sender |-> 0]

QueryTimeout(b, i) ==
    [type |-> "QueryTimeout", branch |-> b, id |-> i, sha |-> "", sender |-> 0]

\* Mutant: any id passes while the branch has a pending request.
check_request_id_AnyId(b, i) == b \in DOMAIN request_ids

\* check_request_id: the branch has a pending id and it is this one.
check_request_id(b, i) ==
    IF b \in DOMAIN request_ids THEN request_ids[b] = i ELSE FALSE

\* get_request_id: the branch's id, a fresh one when it has none.
get_request_id(b) ==
    IF b \in DOMAIN request_ids THEN request_ids[b] ELSE nextId + 1

\* A map with one more (or one replaced) entry, and with one entry removed.
MapPut(m, k, v) == [x \in DOMAIN m \cup {k} |-> IF x = k THEN v ELSE m[x]]
MapRemove(m, k) == [x \in DOMAIN m \ {k} |-> m[x]]

EmptyMap == [x \in {} |-> 0]

\* The facade before any call, with no tier configured.
NoCall == [op |-> "none", kind |-> "", key |-> <<>>, result |-> <<>>, log |-> <<>>]

MultiIdle == caches = <<>> /\ mcLast = NoCall

HeadInit ==
    /\ queries = EmptyMap
    /\ request_ids = EmptyMap
    /\ holderMailbox = <<>>
    /\ workerMailbox = <<>>
    /\ timers = {}
    /\ nextId = 0
    /\ asked = 0
    /\ replies = [c \in Clients |-> <<>>]
    /\ attached = [c \in Clients |-> NoId]
    /\ performCount = [i \in Ids |-> 0]
    /\ timeoutCount = [i \in Ids |-> 0]
    /\ handled = 0
    /\ dropped = {}

\* request_branch_head: ask() makes a reply actor and sends HeadQuery from it.
RequestBranchHead(b) ==
    /\ asked < MaxQueries
    /\ HeadOnly
    /\ asked' = asked + 1
    /\ holderMailbox' = Append(holderMailbox, HeadQuery(b, asked + 1))
    /\ UNCHANGED <<queries, request_ids, workerMailbox, timers, nextId,
                   replies, attached, performCount, timeoutCount, handled,
                   dropped>>

\* Mutant: a query that joins a pending request dispatches the query again.
HeadQueryPending_Redispatch(b, c) ==
    /\ queries' = [queries EXCEPT ![b] = Append(@, c)]
    /\ attached' = [attached EXCEPT ![c] = request_ids[b]]
    /\ workerMailbox' = Append(workerMailbox, PerformQuery(b, request_ids[b]))
    /\ performCount' = [performCount EXCEPT ![request_ids[b]] = @ + 1]
    /\ UNCHANGED <<request_ids, timers, nextId, timeoutCount>>

\* The branch's waiter list gains the sender; nothing is dispatched.
HeadQueryPending(b, c) ==
    /\ queries' = [queries EXCEPT ![b] = Append(@, c)]
    /\ attached' = [attached EXCEPT ![c] = request_ids[b]]
    /\ UNCHANGED <<request_ids, workerMailbox, timers, nextId,
                   performCount, timeoutCount>>

\* Mutant: the new entry gets its waiter list and its messages, but no id is
\* recorded for the branch.
HeadQueryNew_NoId(b, c) ==
    LET id == get_request_id(b) IN
    /\ queries' = MapPut(queries, b, <<c>>)
    /\ UNCHANGED request_ids
    /\ nextId' = IF b \in DOMAIN request_ids THEN nextId ELSE nextId + 1
    /\ attached' = [attached EXCEPT ![c] = id]
    /\ timers' = timers \cup {QueryTimeout(b, id)}
    /\ timeoutCount' = [timeoutCount EXCEPT ![id] = @ + 1]
    /\ workerMailbox' = Append(workerMailbox, PerformQuery(b, id))
    /\ performCount' = [performCount EXCEPT ![id] = @ + 1]

\* A new entry: a new id, a QueryTimeout scheduled, a PerformQuery dispatched.
HeadQueryNew(b, c) ==
    LET id == get_request_id(b) IN
    /\ queries' = MapPut(queries, b, <<c>>)
    /\ request_ids' = MapPut(request_ids, b, id)
    /\ nextId' = IF b \in DOMAIN request_ids THEN nextId ELSE nextId + 1
    /\ attached' = [attached EXCEPT ![c] = id]
    /\ timers' = timers \cup {QueryTimeout(b, id)}
    /\ timeoutCount' = [timeoutCount EXCEPT ![id] = @ + 1]
    /\ workerMailbox' = Append(workerMailbox, PerformQuery(b, id))
    /\ performCount' = [performCount EXCEPT ![id] = @ + 1]

\* HeadRequestHolder::recv, HeadQuery arm.
RecvHeadQuery ==
    /\ holderMailbox # <<>>
    /\ HeadOnly
    /\ Head(holderMailbox).type = "HeadQuery"
    /\ LET m == Head(holderMailbox) IN
         IF m.branch \in DOMAIN queries
         THEN HeadQueryPending(m.branch, m.sender)
         ELSE HeadQueryNew(m.branch, m.sender)
    /\ holderMailbox' = Tail(holderMailbox)
    /\ handled' = handled + 1
    /\ UNCHANGED <<replies, asked, dropped>>

\* The waiters told by a HeadResult: every waiter of the branch.
ToldWaiters(b) == IF b \in DOMAIN queries THEN queries[b] ELSE <<>>

SeqRange(s) == {s[k] : k \in 1..Len(s)}

RECURSIVE TellAll(_, _, _)
\* Each waiter of the list is told v once per occurrence in the list.
TellAll(r, ws, v) ==
    IF ws = <<>> THEN r
    ELSE TellAll([r EXCEPT ![Head(ws)] = Append(@, v)], Tail(ws), v)

\* The id pending for a branch, NoId when it has none.
PendingId(b) == IF b \in DOMAIN request_ids THEN request_ids[b] ELSE NoId

\* The record of an outdated message that was dropped.
Dropped(m) == [type |-> m.type, synthetic |-> m.sha = "InternalTimeout",
               pending |-> PendingId(m.branch) # NoId]

\* Mutant: the waiters are told and the entries of the branch are kept.
DeliverResult_KeepEntries(m) ==
    /\ replies' = TellAll(replies, ToldWaiters(m.branch),
                          [sha |-> m.sha, id |-> m.id])
    /\ UNCHANGED <<queries, request_ids>>

\* The HeadResult arm once the id was found current: every waiter is told the
\* result, and both entries of the branch are removed.
DeliverResult(m) ==
    IF m.branch \in DOMAIN queries
    THEN /\ replies' = TellAll(replies, ToldWaiters(m.branch),
                               [sha |-> m.sha, id |-> m.id])
         /\ queries' = MapRemove(queries, m.branch)
         /\ request_ids' = MapRemove(request_ids, m.branch)
    ELSE UNCHANGED <<queries, request_ids, replies>>

\* HeadRequestHolder::recv, HeadResult arm.
RecvHeadResult ==
    /\ holderMailbox # <<>>
    /\ HeadOnly
    /\ Head(holderMailbox).type = "HeadResult"
    /\ LET m == Head(holderMailbox) IN
         IF ~check_request_id(m.branch, m.id)
         THEN /\ dropped' = dropped \cup {Dropped(m)}
              /\ UNCHANGED <<queries, request_ids, replies>>
         ELSE /\ DeliverResult(m)
              /\ UNCHANGED dropped
    /\ holderMailbox' = Tail(holderMailbox)
    /\ handled' = handled + 1
    /\ UNCHANGED <<workerMailbox, timers, nextId, asked, attached,
                   performCount, timeoutCount>>

\* Mutant: a timeout that is still current produces nothing.
TimeoutResponse_Nothing(m) == <<>>

\* What the QueryTimeout arm tells the holder itself.
TimeoutResponse(m) ==
    IF check_request_id(m.branch, m.id)
    THEN <<HeadResult(m.branch, m.id, "InternalTimeout")>>
    ELSE <<>>

\* HeadRequestHolder::recv, QueryTimeout arm.
RecvQueryTimeout ==
    /\ holderMailbox # <<>>
    /\ HeadOnly
    /\ Head(holderMailbox).type = "QueryTimeout"
    /\ holderMailbox' = Tail(holderMailbox) \o TimeoutResponse(Head(holderMailbox))
    /\ dropped' = IF check_request_id(Head(holderMailbox).branch,
                                      Head(holderMailbox).id)
                  THEN dropped
                  ELSE dropped \cup {Dropped(Head(holderMailbox))}
    /\ handled' = handled + 1
    /\ UNCHANGED <<queries, request_ids, workerMailbox, timers, nextId, asked,
                   replies, attached, performCount, timeoutCount>>

\* ctx.schedule_once: the delay is over and the QueryTimeout is delivered.
TimerFire(t) ==
    /\ t \in timers
    /\ HeadOnly
    /\ timers' = timers \ {t}
    /\ holderMailbox' = Append(holderMailbox, t)
    /\ UNCHANGED <<queries, request_ids, workerMailbox, nextId, asked,
                   replies, attached, performCount, timeoutCount, handled,
                   dropped>>

\* HeadQueryWorker::receive: find_branch_head, and its result told to the sender.
WorkerReceive(s) ==
    /\ workerMailbox # <<>>
    /\ HeadOnly
    /\ LET m == Head(workerMailbox) IN
         holderMailbox' = Append(holderMailbox, HeadResult(m.branch, m.id, s))
    /\ workerMailbox' = Tail(workerMailbox)
    /\ UNCHANGED <<queries, request_ids, timers, nextId, asked, replies,
                   attached, performCount, timeoutCount, handled, dropped>>

HeadNext ==
    \/ \E b \in Branches : RequestBranchHead(b)
    \/ RecvHeadQuery
    \/ RecvHeadResult
    \/ RecvQueryTimeout
    \/ \E t \in timers : TimerFire(t)
    \/ \E s \in WorkerResults : WorkerReceive(s)

HeadSpecInit == HeadInit /\ MultiIdle /\ OthersIdle

HeadSpec == HeadSpecInit /\ [][HeadNext]_vars

(***************************************************************************)
(* The head resolver with the delivery of messages to the holder assumed:  *)
(* the holder's recv runs on every message of its mailbox and every        *)
(* scheduled QueryTimeout becomes due.  Nothing is assumed of the worker.  *)
(***************************************************************************)
MaxLiveQueries == 2

AllTimeouts == {QueryTimeout(b, i) : b \in Branches, i \in Ids}

LiveRequestBranchHead(b) == asked < MaxLiveQueries /\ RequestBranchHead(b)

HeadLiveNext ==
    \/ \E b \in Branches : LiveRequestBranchHead(b)
    \/ RecvHeadQuery
    \/ RecvHeadResult
    \/ RecvQueryTimeout
    \/ \E t \in timers : TimerFire(t)
    \/ \E s \in WorkerResults : WorkerReceive(s)

HeadLiveSpec ==
    /\ HeadSpecInit
    /\ [][HeadLiveNext]_vars
    /\ WF_vars(RecvHeadQuery)
    /\ WF_vars(RecvHeadResult)
    /\ WF_vars(RecvQueryTimeout)
    /\ \A t \in AllTimeouts : WF_vars(TimerFire(t))

(***************************************************************************)
(* Claims about the head resolver.                                         *)
(***************************************************************************)
\* The step is one run of the holder's recv.
HolderStep == handled' = handled + 1

\* The message the holder's recv takes next.
Current == Head(holderMailbox)

C1_QueryWhilePending ==
    /\ HolderStep
    /\ Current.type = "HeadQuery"
    /\ Current.branch \in DOMAIN queries

C1_OnlyAppends ==
    C1_QueryWhilePending =>
        /\ queries' = [queries EXCEPT ![Current.branch] = Append(@, Current.sender)]
        /\ UNCHANGED <<request_ids, workerMailbox, timers, nextId,
                       performCount, timeoutCount, replies>>

C1_OneDispatchPerRequest ==
    \A i \in Ids :
        /\ i <= nextId => performCount[i] = 1 /\ timeoutCount[i] = 1
        /\ i > nextId => performCount[i] = 0 /\ timeoutCount[i] = 0

\* C1: a HeadQuery for a branch that already has a pending entry only appends
\* its sender to the branch's waiter list and dispatches nothing, and every
\* request id ever allocated has had exactly one PerformQuery dispatched and
\* exactly one QueryTimeout scheduled, however many queries joined it.
C1_SinglePerformPerPendingRequest ==
    []C1_OneDispatchPerRequest /\ [][C1_OnlyAppends]_vars

\* Three queries wait on one pending request.
C1_Witness ==
    \E b \in DOMAIN queries :
        /\ Len(queries[b]) >= 3
        /\ performCount[request_ids[b]] = 1

C2_CurrentResult ==
    /\ HolderStep
    /\ Current.type = "HeadResult"
    /\ check_request_id(Current.branch, Current.id)

C2_AllToldOnce ==
    C2_CurrentResult =>
        LET b == Current.branch
            told == [sha |-> Current.sha, id |-> Current.id] IN
        /\ \A c \in Clients :
             replies'[c] = IF c \in SeqRange(queries[b])
                           THEN Append(replies[c], told)
                           ELSE replies[c]
        /\ b \notin DOMAIN queries'
        /\ b \notin DOMAIN request_ids'

C2_AtMostOneReply == \A c \in Clients : Len(replies[c]) <= 1

\* C2: a HeadResult carrying the current request id of its branch is told to
\* every waiter registered for the branch, the same value to each and once
\* each, after which the branch has an entry in neither map; no waiter ever
\* receives two replies.
C2_ResultFansOutOnce ==
    []C2_AtMostOneReply /\ [][C2_AllToldOnce]_vars

\* Two waiters of one request hold the same worker result.
C2_Witness ==
    \E c, d \in Clients :
        /\ c # d
        /\ Len(replies[c]) = 1
        /\ replies[c] = replies[d]
        /\ replies[c][1].sha = "1234567"

C3_Outdated ==
    /\ HolderStep
    /\ Current.type \in {"HeadResult", "QueryTimeout"}
    /\ ~check_request_id(Current.branch, Current.id)

C3_OutdatedIsDropped ==
    C3_Outdated =>
        /\ holderMailbox' = Tail(holderMailbox)
        /\ UNCHANGED <<queries, request_ids, replies, workerMailbox, timers>>

C3_RepliesFromOwnRequest ==
    \A c \in Clients :
        \A k \in 1..Len(replies[c]) : replies[c][k].id = attached[c]

\* C3: a HeadResult or QueryTimeout whose id is not the current request id
\* of its branch is dropped: it changes no holder state, sends nothing and
\* tells no waiter; so every reply a waiter gets comes from the request it
\* was registered under, never from an earlier request of the same branch.
C3_OutdatedMessagesDropped ==
    []C3_RepliesFromOwnRequest /\ [][C3_OutdatedIsDropped]_vars

\* The late worker result of a request that timed out, and the timeout of a
\* request already answered, were each dropped while a later request for the
\* same branch was pending.
C3_Witness ==
    /\ [type |-> "HeadResult", synthetic |-> FALSE, pending |-> TRUE] \in dropped
    /\ [type |-> "QueryTimeout", synthetic |-> FALSE, pending |-> TRUE] \in dropped

\* C4: every HeadQuery the holder has accepted is eventually answered, given
\* only that messages to the holder are delivered: the worker may never
\* respond.
C4_EveryQueryAnswered ==
    \A c \in Clients : (attached[c] # NoId) ~> (replies[c] # <<>>)

\* A waiter was answered InternalTimeout while the PerformQuery of its
\* request still sits unanswered in the worker's mailbox.
C4_Witness ==
    \E c \in Clients :
        /\ replies[c] # <<>>
        /\ replies[c][1].sha = "InternalTimeout"
        /\ \E k \in 1..Len(workerMailbox) : workerMailbox[k].id = attached[c]


(***************************************************************************)
(* The tiered cache facade, src/storage/multi.rs.  A tier is any           *)
(* implementation of the Cache trait (src/storage/cache.rs): it holds      *)
(* environments and listings by key, answers a read with a hit, a miss or  *)
(* an error, and a write with ok or an error.                              *)
(***************************************************************************)
MaxTiers == 3

EnvKeys == {<<"TEST", "abcdef0">>}
ListingKeys == {<<"abcdef0">>}
Payloads == {"v1", "v2"}

None == "None"

KeysOf(kind) == IF kind = "env" THEN EnvKeys ELSE ListingKeys

\* A tier that holds nothing.
EmptyTier == [env |-> [k \in EnvKeys |-> None],
              listing |-> [k \in ListingKeys |-> None]]

\* Results of a call: Ok(Some(d)), Ok(None), Ok(()) and Err(e); the error
\* names the tier operation it came from.
Hit(d) == <<"hit", d>>
Miss == <<"miss">>
Ok == <<"ok">>
Err(op, i) == <<"err", op, i>>

\* One tier operation, as the call's log records it.
Op(op, i) == <<op, i>>

\* cache.write_env / cache.write_env_listing on one tier.
TierWrite(c, kind, key, d) == [c EXCEPT ![kind][key] = d]

RECURSIVE WriteTiers(_, _, _, _, _, _, _)
\* Tiers j..last are written in list order; the write to tier failW fails
\* and ends the walk.
WriteTiers(cs, kind, key, d, j, last, failW) ==
    IF j > last THEN [caches |-> cs, ok |-> TRUE, failed |-> 0, log |-> <<>>]
    ELSE IF j = failW
    THEN [caches |-> cs, ok |-> FALSE, failed |-> j, log |-> <<Op("write", j)>>]
    ELSE LET rest == WriteTiers([cs EXCEPT ![j] = TierWrite(cs[j], kind, key, d)],
                                kind, key, d, j + 1, last, failW)
         IN [rest EXCEPT !.log = <<Op("write", j)>> \o @]

\* Mutant: only the first tier is written.
Promote_OnlyFirst(cs, kind, key, d, i, failW) ==
    WriteTiers(cs, kind, key, d, 1, IF i > 1 THEN 1 ELSE 0, failW)

\* The promotion loop: self.caches.iter().take(i), each written with `?`.
Promote(cs, kind, key, d, i, failW) ==
    WriteTiers(cs, kind, key, d, 1, i - 1, failW)

RECURSIVE ReadTiers_ErrorIsMiss(_, _, _, _, _, _)
\* Mutant: a tier's read error counts as a miss and the walk goes on.
ReadTiers_ErrorIsMiss(cs, kind, key, i, failR, failW) ==
    IF i > Len(cs) THEN [caches |-> cs, result |-> Miss, log |-> <<>>]
    ELSE IF i # failR /\ cs[i][kind][key] # None
    THEN LET p == Promote(cs, kind, key, cs[i][kind][key], i, failW) IN
         [caches |-> p.caches,
          result |-> IF p.ok THEN Hit(cs[i][kind][key]) ELSE Err("write", p.failed),
          log |-> <<Op("read", i)>> \o p.log]
    ELSE LET rest == ReadTiers_ErrorIsMiss(cs, kind, key, i + 1, failR, failW)
         IN [rest EXCEPT !.log = <<Op("read", i)>> \o @]

RECURSIVE ReadTiers(_, _, _, _, _, _)
\* The read loop from tier i on.  The read of tier failR fails.
ReadTiers(cs, kind, key, i, failR, failW) ==
    IF i > Len(cs) THEN [caches |-> cs, result |-> Miss, log |-> <<>>]
    ELSE IF i = failR
    THEN [caches |-> cs, result |-> Err("read", i), log |-> <<Op("read", i)>>]
    ELSE IF cs[i][kind][key] # None
    THEN LET p == Promote(cs, kind, key, cs[i][kind][key], i, failW) IN
         [caches |-> p.caches,
          result |-> IF p.ok THEN Hit(cs[i][kind][key]) ELSE Err("write", p.failed),
          log |-> <<Op("read", i)>> \o p.log]
    ELSE LET rest == ReadTiers(cs, kind, key, i + 1, failR, failW)
         IN [rest EXCEPT !.log = <<Op("read", i)>> \o @]

\* What may go wrong in a call: nothing, or the read or the write of one
\* tier fails (the first error ends the call).
NoFail == <<"none", 0>>
Failures == {NoFail} \cup {Op(o, i) : o \in {"read", "write"}, i \in 1..MaxTiers}

FailRead(f) == IF f[1] = "read" THEN f[2] ELSE 0
FailWrite(f) == IF f[1] = "write" THEN f[2] ELSE 0

MultiInit ==
    /\ \E n \in 1..MaxTiers : caches = [i \in 1..n |-> EmptyTier]
    /\ mcLast = NoCall

MultiSpecInit == HeadInit /\ MultiInit /\ OthersIdle

MultiRead(kind, key, f) ==
    LET r == ReadTiers(caches, kind, key, 1, FailRead(f), FailWrite(f)) IN
    /\ caches' = r.caches
    /\ mcLast' = [op |-> "read", kind |-> kind, key |-> key,
                  result |-> r.result, log |-> r.log]

\* Mutant: the loop goes on after a tier's write has failed.
MultiWrite_ContinueAfterError(kind, key, d, f) ==
    LET w == WriteTiers(caches, kind, key, d, 1, Len(caches), FailWrite(f))
        rest == WriteTiers(w.caches, kind, key, d, w.failed + 1, Len(caches), 0) IN
    /\ caches' = IF w.ok THEN w.caches ELSE rest.caches
    /\ mcLast' = [op |-> "write", kind |-> kind, key |-> key,
                  result |-> IF w.ok THEN Ok ELSE Err("write", w.failed),
                  log |-> IF w.ok THEN w.log ELSE w.log \o rest.log]

MultiWrite(kind, key, d, f) ==
    LET w == WriteTiers(caches, kind, key, d, 1, Len(caches), FailWrite(f)) IN
    /\ caches' = w.caches
    /\ mcLast' = [op |-> "write", kind |-> kind, key |-> key,
                  result |-> IF w.ok THEN Ok ELSE Err("write", w.failed),
                  log |-> w.log]

\* MultiCache::read_env
MultiReadEnv(key, f) ==
    /\ MultiRead("env", key, f)
    /\ MultiOnly

\* MultiCache::read_env_listing
MultiReadEnvListing(key, f) ==
    /\ MultiRead("listing", key, f)
    /\ MultiOnly

\* MultiCache::write_env
MultiWriteEnv(key, d, f) ==
    /\ MultiWrite("env", key, d, f)
    /\ MultiOnly

\* MultiCache::write_env_listing
MultiWriteEnvListing(key, d, f) ==
    /\ MultiWrite("listing", key, d, f)
    /\ MultiOnly

\* A tier loses an entry on its own: the LRU tier evicts it, the keyed store
\* lets it expire, the table's clean deletes it.
TierLoses(i, kind, key) ==
    /\ caches[i][kind][key] # None
    /\ caches' = [caches EXCEPT ![i][kind][key] = None]
    /\ mcLast' = [op |-> "lose", kind |-> kind, key |-> key,
                  result |-> Ok, log |-> <<Op("lose", i)>>]
    /\ MultiOnly

MultiNext ==
    \/ \E k \in EnvKeys, f \in Failures : MultiReadEnv(k, f)
    \/ \E k \in ListingKeys, f \in Failures : MultiReadEnvListing(k, f)
    \/ \E k \in EnvKeys, d \in Payloads, f \in Failures : MultiWriteEnv(k, d, f)
    \/ \E k \in ListingKeys, d \in Payloads, f \in Failures :
          MultiWriteEnvListing(k, d, f)
    \/ \E i \in 1..Len(caches), kind \in {"env", "listing"} :
          \E k \in KeysOf(kind) : TierLoses(i, kind, k)

MultiSpec == MultiSpecInit /\ [][MultiNext]_vars

(***************************************************************************)
(* Claims about the tiered cache facade.                                   *)
(***************************************************************************)
\* The tiers that hold the key before the call.
HitTiers(kind, key) == {i \in 1..Len(caches) : caches[i][kind][key] # None}

Least(S) == CHOOSE i \in S : \A j \in S : i <= j

\* Reads of tiers 1..h followed by writes of tiers 1..w, in order.
WalkLog(h, w) ==
    [k \in 1..(h + w) |-> IF k <= h THEN Op("read", k) ELSE Op("write", k - h)]

C9_ReadWithoutError ==
    /\ mcLast'.op = "read"
    /\ mcLast'.result[1] # "err"

C9_FirstHit ==
    C9_ReadWithoutError =>
        LET kind == mcLast'.kind
            key == mcLast'.key
            hits == HitTiers(kind, key) IN
        IF hits = {}
        THEN /\ mcLast'.result = Miss
             /\ caches' = caches
             /\ mcLast'.log = WalkLog(Len(caches), 0)
        ELSE LET h == Least(hits)
                 d == caches[h][kind][key] IN
             /\ mcLast'.result = Hit(d)
             /\ mcLast'.log = WalkLog(h, h - 1)
             /\ \A j \in 1..Len(caches) :
                  caches'[j] = IF j < h THEN TierWrite(caches[j], kind, key, d)
                               ELSE caches[j]

\* C9: a read_env or read_env_listing in which no tier operation fails
\* reads the tiers in list order up to the first one that holds the key,
\* returns that tier's entry and writes it into every tier before it, in
\* list order; tiers from the hitting one on are neither written nor, after
\* it, read; when no tier holds the key the result is a miss and nothing is
\* written.
C9_ReadPromotesToEarlierTiers == [][C9_FirstHit]_vars

\* A read hit the third tier after two misses and promoted into both
\* earlier tiers.
C9_Witness ==
    /\ mcLast.op = "read"
    /\ mcLast.result[1] = "hit"
    /\ mcLast.log = WalkLog(3, 2)
    /\ caches[1][mcLast.kind][mcLast.key] = mcLast.result[2]
    /\ caches[2][mcLast.kind][mcLast.key] = mcLast.result[2]

\* Writes of tiers 1..w, in order.
WriteLog(w) == [k \in 1..w |-> Op("write", k)]

C11_WriteThrough ==
    mcLast'.op = "write" =>
        LET kind == mcLast'.kind
            key == mcLast'.key
            n == Len(caches) IN
        \/ /\ mcLast'.result = Ok
           /\ mcLast'.log = WriteLog(n)
           /\ \E d \in Payloads :
                \A j \in 1..n : caches'[j] = TierWrite(caches[j], kind, key, d)
        \/ \E i \in 1..n :
              /\ mcLast'.result = Err("write", i)
              /\ mcLast'.log = WriteLog(i)
              /\ \E d \in Payloads :
                   \A j \in 1..n :
                      caches'[j] = IF j < i THEN TierWrite(caches[j], kind, key, d)
                                   ELSE caches[j]

\* C11: a write_env or write_env_listing that returns ok has written the
\* entry to every tier, in list order; when the write to tier i fails that
\* error is returned, the tiers before i hold the new entry and tier i and
\* the tiers after it are as they were.
C11_WriteReachesEveryTierOrStops == [][C11_WriteThrough]_vars

\* A write failed at the second of three tiers: the first holds the new
\* entry, the third, which held another one, still holds that.
C11_Witness ==
    /\ Len(caches) = 3
    /\ mcLast.op = "write"
    /\ mcLast.result = Err("write", 2)
    /\ caches[1][mcLast.kind][mcLast.key] \in Payloads
    /\ caches[3][mcLast.kind][mcLast.key] \in Payloads
    /\ caches[3][mcLast.kind][mcLast.key] # caches[1][mcLast.kind][mcLast.key]

(***************************************************************************)
(* The environment lookup of the HTTP server: get_env and get_env_listing  *)
(* (src/app/server.rs) over the LRU of environments, the sqlite table      *)
(* (src/app/db.rs) and the git working tree (src/config.rs, src/git.rs).   *)
(* Strings that are compared, cut or concatenated are sequences of         *)
(* characters.                                                             *)
(***************************************************************************)
NumThreads == 2
CacheSize == 1
MaxFetchTicks == 1

ShaLen == 7

Threads == 1..NumThreads

\* Two commits of the remote repository, by their full ids.
CommitA == <<"a", "b", "c", "d", "e", "f", "0", "1">>
CommitB == <<"1", "2", "3", "4", "5", "6", "7", "8">>
Commits == {CommitA, CommitB}

EnvTEST == <<"T", "E", "S", "T">>
EnvLower == <<"t", "e", "s", "t">>

\* What the routes are asked for: a full id, an abbreviated one, another
\* commit's id; the environment name as the repository spells it and, at
\* one commit, in another spelling.
RequestShas == {CommitA, SubSeq(CommitA, 1, 5), CommitB}
EnvRequests == {<<EnvTEST, sha>> : sha \in RequestShas} \cup {<<EnvLower, CommitA>>}

\* The environments the configuration files of a commit hold, after find's
\* merge; each under the name in its file name config.<name>.json.
Tree(c) ==
    {[file |-> EnvTEST,
      env |-> [environment |-> EnvTEST, environment_type |-> None,
               config_data |-> IF c = CommitA THEN "dataA" ELSE "dataB"]]}

Sep == <<":", ":">>

\* format_sha
format_sha(sha) == IF Len(sha) >= ShaLen THEN SubSeq(sha, 1, ShaLen) ELSE sha

\* format_key: the key of the LRU of environments
format_key(sha, env) == sha \o Sep \o env

\* db::gen_env_key: the key of a row
gen_env_key(sha, env) == env \o Sep \o sha

IsPrefix(p, s) == Len(p) <= Len(s) /\ SubSeq(s, 1, Len(p)) = p

\* ASCII case folding, as LIKE and a case-insensitive regex apply it.
Lower(ch) ==
    CASE ch = "T" -> "t" [] ch = "E" -> "e" [] ch = "S" -> "s" [] OTHER -> ch

LowerAll(s) == [i \in 1..Len(s) |-> Lower(s[i])]

RECURSIVE Like(_, _)
\* SQL's  s LIKE p : % stands for any run of characters, _ for any one
\* character, letters match without regard to case.
Like(p, s) ==
    IF p = <<>> THEN s = <<>>
    ELSE IF Head(p) = "%"
    THEN Like(Tail(p), s) \/ (s # <<>> /\ Like(p, Tail(s)))
    ELSE /\ s # <<>>
         /\ Head(p) = "_" \/ Lower(Head(p)) = Lower(Head(s))
         /\ Like(Tail(p), Tail(s))

\* From<&Environment> for WritableEnvironment: the JSON value as text.
to_writable(e) ==
    [config_data |-> <<"json", e.config_data>>,
     environment |-> e.environment, environment_type |-> e.environment_type]

\* From<WritableEnvironment> for Environment: the text parsed back.
from_writable(w) ==
    [environment |-> w.environment, environment_type |-> w.environment_type,
     config_data |-> w.config_data[2]]

\* bincode::serialize then BZip2Encoder, and back.
encode(e) == <<"bzip2", <<"bincode", to_writable(e)>>>>
decode(bytes) == from_writable(bytes[2][2])

\* db::read_sql_env: the rows the SELECT matches; LIMIT 1 without ORDER BY
\* returns one of them.
MatchingRows(env, sha) ==
    {r \in db : Like(gen_env_key(sha, env) \o <<"%">>, r.key)}

\* db::write_sql_env: the INSERT fails on a key the table already holds.
CanInsert(key) == \A r \in db : r.key # key

\* The LRU caches (lru_time_cache::LruCache with a capacity).
LruHas(c, key) == \E i \in 1..Len(c) : c[i].key = key
LruVal(c, key) == (CHOOSE i \in 1..Len(c) : c[i].key = key)
LruWithout(c, key) == SelectSeq(c, LAMBDA x : x.key # key)
\* get: a hit makes the entry the most recently used one.
LruGet(c, key) ==
    IF LruHas(c, key) THEN Append(LruWithout(c, key), c[LruVal(c, key)]) ELSE c
\* insert: the entry becomes the most recently used one; above capacity the
\* least recently used one is evicted.
LruInsert(c, key, val) ==
    LET n == Append(LruWithout(c, key), [key |-> key, val |-> val]) IN
    IF Len(n) > CacheSize THEN Tail(n) ELSE n

\* git revparse_single: the commits of `among` that the (possibly
\* abbreviated) id names.
Resolve(sha, among) == {c \in among : IsPrefix(sha, c)}

\* The allow_fetch argument of git::reset (the seven-argument reset that
\* ConfigDir::refresh calls): fetching is tried only when it is set.
FetchPermitted == allow_fetch

\* git::get_head_sha / find_ref_sha: the first seven characters of HEAD.
get_head_sha(h) == SubSeq(h, 1, ShaLen)

\* The error of the refresh of a git source whose target is in the clone
\* neither before nor after the fetch, or is not in it while fetching is
\* not permitted.
UnknownSHA == <<"UnknownSHA">>

\* The mutant fetches whether or not the clone resolves the target.
reset_FetchesFirst(target, fetchOk) ==
    LET remote == Resolve(target, Commits) IN
    IF ~FetchPermitted \/ ~fetchOk
    THEN [ok |-> FALSE, head |-> head, known |-> known,
          fetched |-> FetchPermitted,
          err |-> IF FetchPermitted THEN <<"GitError">> ELSE UnknownSHA]
    ELSE IF Cardinality(remote) = 1
    THEN [ok |-> TRUE, head |-> CHOOSE c \in remote : TRUE, known |-> Commits,
          fetched |-> TRUE, err |-> <<>>]
    ELSE [ok |-> FALSE, head |-> head, known |-> Commits, fetched |-> TRUE,
          err |-> UnknownSHA]

\* git::reset (through ConfigDir::refresh) to a target: detach_head, and on
\* failure fetch and detach_head again.  fetchOk: the fetch succeeds, and
\* when it does not, its error is what reset returns.  fetched: a fetch was
\* started.
reset(target, fetchOk) ==
    LET local == Resolve(target, known)
        remote == Resolve(target, Commits) IN
    IF Cardinality(local) = 1
    THEN [ok |-> TRUE, head |-> CHOOSE c \in local : TRUE, known |-> known,
          fetched |-> FALSE, err |-> <<>>]
    ELSE IF ~FetchPermitted
    THEN [ok |-> FALSE, head |-> head, known |-> known, fetched |-> FALSE,
          err |-> UnknownSHA]
    ELSE IF ~fetchOk
    THEN [ok |-> FALSE, head |-> head, known |-> known, fetched |-> TRUE,
          err |-> <<"GitError">>]
    ELSE IF Cardinality(remote) = 1
    THEN [ok |-> TRUE, head |-> CHOOSE c \in remote : TRUE, known |-> Commits,
          fetched |-> TRUE, err |-> <<>>]
    ELSE [ok |-> FALSE, head |-> head, known |-> Commits, fetched |-> TRUE,
          err |-> UnknownSHA]

\* ConfigDir::find with the filter build_env_regex makes for env: the
\* files whose name matches ^config\.<env>\.json$ without regard to case.
find(env) == {f.env : f \in {g \in Tree(head) : LowerAll(g.file) = LowerAll(env)}}

\* ConfigDir::find with the all-environments filter, then format_envs.
format_envs == {[name |-> f.env.environment, env_type |-> f.env.environment_type] :
                   f \in Tree(head)}

NoReq == [op |-> "none", env |-> <<>>, sha |-> <<>>]
\* The environment local before it is bound: no name, no type, no data.
NoEnv == [environment |-> <<>>, environment_type |-> None, config_data |-> None]

\* tick: the number of fetch ticks handled when the thread refreshed.
NoLoc == [sha |-> <<>>, env |-> NoEnv, tick |-> 0]
NoRes == [kind |-> "none", val |-> None, src |-> ""]

EnvRes(e, src) == [kind |-> "env", val |-> e, src |-> src]
ListingRes(l, src) == [kind |-> "listing", val |-> l, src |-> src]
ErrRes(e) == [kind |-> "err", val |-> e, src |-> ""]

\* start_up_server: empty caches, a clone that holds CommitA and has it
\* checked out, the lock free, every request thread idle.
ServeInit ==
    /\ FetchIdle
    /\ environments = <<>>
    /\ environment_listings = <<>>
    /\ db = {}
    /\ head = CommitA
    /\ known = {CommitA}
    /\ allow_fetch \in BOOLEAN
    /\ write_lock = 0
    /\ maintenance_count = 0
    /\ tpc = [t \in Threads |-> "idle"]
    /\ treq = [t \in Threads |-> NoReq]
    /\ tloc = [t \in Threads |-> NoLoc]
    /\ tres = [t \in Threads |-> NoRes]
    /\ expired = [t \in Threads |-> FALSE]
    /\ refreshed = {}

ServeSpecInit ==
    HeadInit /\ MultiIdle /\ ServeInit /\ TiersIdle /\ RouteIdle /\ FnIdle /\ WorkerIdle

ServeOnly ==
    UNCHANGED <<headVars, multiVars, tierVars, fetchVars, routeVars, fnVars, workerVars>>
FetchOnly == UNCHANGED <<headVars, multiVars, tierVars, routeVars, fnVars, workerVars>>

repoVars == <<head, known, allow_fetch, maintenance_count>>

\* A thread ends its call with a result.
Return(t, r) ==
    /\ tpc' = [tpc EXCEPT ![t] = "done"]
    /\ tres' = [tres EXCEPT ![t] = r]
    /\ tloc' = [tloc EXCEPT ![t] = NoLoc]
    /\ expired' = [expired EXCEPT ![t] = FALSE]

Goto(t, pc) == tpc' = [tpc EXCEPT ![t] = pc] /\ UNCHANGED expired

\* Mutant: the lock stays taken when the function is left.
Release_Keeps(t) == UNCHANGED write_lock

\* Dropping the guard of write_lock on leaving the function.
Release(t) == write_lock' = 0

MaintenanceEvery == 10

\* A route calls get_env: format_sha on the requested sha, format_key, and
\* get_env_from_cache.
GetEnvCall(t, env, raw) ==
    LET sha == format_sha(raw)
        key == format_key(sha, env) IN
    /\ tpc[t] = "idle"
    /\ treq' = [treq EXCEPT ![t] = [op |-> "env", env |-> env, sha |-> sha]]
    /\ IF LruHas(environments, key)
       THEN /\ environments' = LruGet(environments, key)
            /\ Return(t, EnvRes(environments[LruVal(environments, key)].val, "L1"))
       ELSE /\ Goto(t, "l2")
            /\ UNCHANGED <<environments, tres, tloc>>
    /\ UNCHANGED <<environment_listings, db, repoVars, write_lock,
                   refreshed>>
    /\ ServeOnly

\* Mutant: the environment the table held is not returned; the call goes
\* on to the lock as after a miss.
ReadDbStep_HitTakesLock(t, ok) ==
    /\ tpc[t] = "l2"
    /\ Goto(t, "lock")
    /\ UNCHANGED <<tloc, environments, environment_listings, db, repoVars,
                   write_lock, treq, tres, refreshed>>

\* get_env, the read of the table before the lock.  A read that fails
\* (ok = FALSE) counts as a miss: unwrap_or(None).
ReadDbStep(t, ok) ==
    LET rows == IF ok THEN MatchingRows(treq[t].env, treq[t].sha) ELSE {} IN
    /\ tpc[t] = "l2"
    /\ IF rows = {}
       THEN /\ Goto(t, "lock")
            /\ UNCHANGED tloc
       ELSE /\ Goto(t, "promote")
            /\ \E r \in rows :
                 tloc' = [tloc EXCEPT ![t].env = decode(r.data)]
    /\ UNCHANGED <<environments, environment_listings, db, repoVars,
                   write_lock, treq, tres, refreshed>>

ReadDb(t, ok) == ReadDbStep(t, ok) /\ ServeOnly

\* get_env, insert_into_env_cache of what the table held.
InsertFromDb(t) ==
    /\ tpc[t] = "promote"
    /\ environments' = LruInsert(environments,
                                 format_key(treq[t].sha, treq[t].env), tloc[t].env)
    /\ Return(t, EnvRes(tloc[t].env, "L2"))
    /\ UNCHANGED <<environment_listings, db, repoVars, write_lock, treq,
                   refreshed>>
    /\ ServeOnly

\* Mutant: the lock is handed out although another request holds it.
Acquire_NoExclusion(t) ==
    /\ tpc[t] \in {"lock", "lslock"}
    /\ write_lock' = t
    /\ Goto(t, IF tpc[t] = "lock" THEN "dc" ELSE "lsdc")

\* state.write_lock.lock(): returns once the lock is free, however long
\* that takes.
Acquire(t) ==
    /\ tpc[t] \in {"lock", "lslock"}
    /\ write_lock = 0
    /\ write_lock' = t
    /\ Goto(t, IF tpc[t] = "lock" THEN "dc" ELSE "lsdc")

AcquireLock(t) ==
    /\ Acquire(t)
    /\ UNCHANGED <<environments, environment_listings, db, repoVars, treq,
                   tloc, tres, refreshed>>
    /\ ServeOnly

\* Time passes while a request is blocked in lock(): its wait is now longer
\* than the bound.  The call has no timeout; nothing in it reacts.
LockWaitElapses(t) ==
    /\ tpc[t] \in {"lock", "lslock"}
    /\ write_lock # 0
    /\ ~expired[t]
    /\ expired' = [expired EXCEPT ![t] = TRUE]
    /\ UNCHANGED <<environments, environment_listings, db, repoVars,
                   write_lock, tpc, treq, tloc, tres, refreshed>>
    /\ ServeOnly

\* get_env, the second read of the table, under the lock: a hit is returned
\* as it is.
DoubleCheckStep(t, ok) ==
    LET rows == IF ok THEN MatchingRows(treq[t].env, treq[t].sha) ELSE {} IN
    /\ tpc[t] = "dc"
    /\ IF rows = {}
       THEN /\ Goto(t, "refresh")
            /\ UNCHANGED <<write_lock, tres, tloc>>
       ELSE /\ \E r \in rows : Return(t, EnvRes(decode(r.data), "L2dc"))
            /\ Release(t)
    /\ UNCHANGED <<environments, environment_listings, db, repoVars, treq,
                   refreshed>>

DoubleCheck(t, ok) == DoubleCheckStep(t, ok) /\ ServeOnly

\* config_dir.refresh(remote, Some(sha), allow_fetch) with `?`.
Refresh(t, fetchOk, next) ==
    LET r == reset(treq[t].sha, fetchOk) IN
    /\ head' = r.head
    /\ known' = r.known
    /\ refreshed' = refreshed \cup {t}
    /\ IF r.ok
       THEN /\ tloc' = [tloc EXCEPT ![t].sha = get_head_sha(r.head),
                                     ![t].tick = fetchTicks]
            /\ Goto(t, next)
            /\ UNCHANGED <<write_lock, tres>>
       ELSE /\ Return(t, ErrRes(r.err))
            /\ Release(t)
    /\ UNCHANGED <<environments, environment_listings, db, allow_fetch,
                   maintenance_count, treq>>
    /\ ServeOnly

\* get_env, the refresh.
RefreshEnv(t, fetchOk) ==
    /\ tpc[t] = "refresh"
    /\ Refresh(t, fetchOk, "find")

\* Mutant: an error of the write to the table fails the request.
FindEnvStep_FailsOnWriteError(t, ok) ==
    LET sel == {e \in find(treq[t].env) : e.environment = treq[t].env}
        key == gen_env_key(tloc[t].sha, treq[t].env) IN
    /\ tpc[t] = "find"
    /\ IF sel = {} \/ ~ok
       THEN /\ Return(t, ErrRes(<<"SqliteFailure">>))
            /\ Release(t)
            /\ UNCHANGED db
       ELSE /\ Goto(t, "insert")
            /\ \E e \in sel :
                 /\ tloc' = [tloc EXCEPT ![t].env = e]
                 /\ db' = IF ok /\ CanInsert(key)
                          THEN db \cup {[key |-> key, data |-> encode(e),
                                         old |-> FALSE]}
                          ELSE db
            /\ UNCHANGED <<write_lock, tres>>
    /\ UNCHANGED <<environments, environment_listings, repoVars, treq,
                   refreshed>>

\* get_env: build_env_regex, find, the entry whose name is env, and
\* db::write_sql_env of it under the sha refresh returned.  An error of the
\* write (ok = FALSE, or a key the table already holds) is logged and the
\* call goes on.
FindEnvStep(t, ok) ==
    LET sel == {e \in find(treq[t].env) : e.environment = treq[t].env}
        key == gen_env_key(tloc[t].sha, treq[t].env) IN
    /\ tpc[t] = "find"
    /\ IF sel = {}
       THEN /\ Return(t, ErrRes(<<"UnknownEnvironment", tloc[t].sha,
                                   treq[t].env>>))
            /\ Release(t)
            /\ UNCHANGED db
       ELSE /\ Goto(t, "insert")
            /\ \E e \in sel :
                 /\ tloc' = [tloc EXCEPT ![t].env = e]
                 /\ db' = IF ok /\ CanInsert(key)
                          THEN db \cup {[key |-> key, data |-> encode(e),
                                         old |-> FALSE]}
                          ELSE db
            /\ UNCHANGED <<write_lock, tres>>
    /\ UNCHANGED <<environments, environment_listings, repoVars, treq,
                   refreshed>>

FindEnv(t, ok) == FindEnvStep(t, ok) /\ ServeOnly

\* get_env, insert_into_env_cache of what find gave, and the return.
InsertFromGit(t) ==
    /\ tpc[t] = "insert"
    /\ environments' = LruInsert(environments,
                                 format_key(treq[t].sha, treq[t].env), tloc[t].env)
    /\ Return(t, EnvRes(tloc[t].env, "git"))
    /\ Release(t)
    /\ UNCHANGED <<environment_listings, db, repoVars, treq, refreshed>>
    /\ ServeOnly

\* A route calls get_env_listing: format_sha and check_env_listing_cache.
GetEnvListingCall(t, raw) ==
    LET sha == format_sha(raw) IN
    /\ tpc[t] = "idle"
    /\ treq' = [treq EXCEPT ![t] = [op |-> "listing", env |-> <<>>, sha |-> sha]]
    /\ IF LruHas(environment_listings, format_sha(sha))
       THEN /\ environment_listings' = LruGet(environment_listings, format_sha(sha))
            /\ Return(t, ListingRes(
                   environment_listings[LruVal(environment_listings, format_sha(sha))].val,
                   "L1"))
       ELSE /\ Goto(t, "lslock")
            /\ UNCHANGED <<environment_listings, tres, tloc>>
    /\ UNCHANGED <<environments, db, repoVars, write_lock, refreshed>>
    /\ ServeOnly

\* get_env_listing, check_env_listing_cache again, under the lock.
ListingDoubleCheck(t) ==
    LET sha == format_sha(treq[t].sha) IN
    /\ tpc[t] = "lsdc"
    /\ IF LruHas(environment_listings, sha)
       THEN /\ environment_listings' = LruGet(environment_listings, sha)
            /\ Return(t, ListingRes(
                   environment_listings[LruVal(environment_listings, sha)].val, "L1dc"))
            /\ Release(t)
       ELSE /\ Goto(t, "lsrefresh")
            /\ UNCHANGED <<environment_listings, write_lock, tres, tloc>>
    /\ UNCHANGED <<environments, db, repoVars, treq, refreshed>>
    /\ ServeOnly

\* get_env_listing, the refresh.
RefreshListing(t, fetchOk) ==
    /\ tpc[t] = "lsrefresh"
    /\ Refresh(t, fetchOk, "lsfind")

\* get_env_listing: find of all environments, format_envs and
\* insert_into_env_listing_cache under the sha refresh returned.
FindListing(t) ==
    /\ tpc[t] = "lsfind"
    /\ environment_listings' =
           LruInsert(environment_listings, format_sha(tloc[t].sha), format_envs)
    /\ Return(t, ListingRes(format_envs, "git"))
    /\ Release(t)
    /\ UNCHANGED <<environments, db, repoVars, treq, refreshed>>
    /\ ServeOnly

\* FetchActor::receive(ExecuteFetch): fetch_only, then the maintenance
\* counter.  ok: the fetch succeeds.
\* Mutant: the tick also moves HEAD to the tip it fetched.
ExecuteFetch_MovesHead(ok) ==
    /\ known' = IF ok THEN Commits ELSE known
    /\ head' = IF ok THEN CommitB ELSE head
    /\ maintenance_count' = IF maintenance_count >= MaintenanceEvery THEN 0
                            ELSE maintenance_count + 1
    /\ maintenanceLog' = maintenanceLog
    /\ fetchTicks' = fetchTicks + 1
    /\ UNCHANGED <<environments, environment_listings, db, allow_fetch,
                   write_lock, tpc, treq, tloc, tres, expired, refreshed>>
    /\ FetchOnly

ExecuteFetch(ok) ==
    /\ known' = IF ok THEN Commits ELSE known
    /\ maintenance_count' = IF maintenance_count >= MaintenanceEvery THEN 0
                            ELSE maintenance_count + 1
    /\ maintenanceLog' = IF maintenance_count >= MaintenanceEvery
                         THEN Append(maintenanceLog, fetchTicks + 1)
                         ELSE maintenanceLog
    /\ fetchTicks' = fetchTicks + 1
    /\ UNCHANGED <<environments, environment_listings, db, head, allow_fetch,
                   write_lock, tpc, treq, tloc, tres, expired, refreshed>>
    /\ FetchOnly

\* The fetch poller's tick, while the server runs.
FetchTick(ok) ==
    /\ maintenance_count < MaxFetchTicks
    /\ ExecuteFetch(ok)

\* Days pass: the rows the table holds are now older than db_max_age.
RowsAge ==
    /\ \E r \in db : ~r.old
    /\ db' = {[r EXCEPT !.old = TRUE] : r \in db}
    /\ UNCHANGED <<environments, environment_listings, repoVars, write_lock,
                   tpc, treq, tloc, tres, expired, refreshed>>
    /\ ServeOnly

\* CleanupActor::receive(ExecuteCleanup): db::clean_db deletes the rows
\* older than db_max_age; an error is logged.
ExecuteCleanup(ok) ==
    /\ db' = IF ok THEN {r \in db : ~r.old} ELSE db
    /\ UNCHANGED <<environments, environment_listings, repoVars, write_lock,
                   tpc, treq, tloc, tres, expired, refreshed>>
    /\ ServeOnly

ServeNext ==
    \/ \E t \in Threads, r \in EnvRequests : GetEnvCall(t, r[1], r[2])
    \/ \E t \in Threads, ok \in BOOLEAN : ReadDb(t, ok)
    \/ \E t \in Threads : InsertFromDb(t)
    \/ \E t \in Threads : AcquireLock(t)
    \/ \E t \in Threads : LockWaitElapses(t)
    \/ \E t \in Threads, ok \in BOOLEAN : DoubleCheck(t, ok)
    \/ \E t \in Threads, ok \in BOOLEAN : RefreshEnv(t, ok)
    \/ \E t \in Threads, ok \in BOOLEAN : FindEnv(t, ok)
    \/ \E t \in Threads : InsertFromGit(t)
    \/ \E t \in Threads, raw \in RequestShas : GetEnvListingCall(t, raw)
    \/ \E t \in Threads : ListingDoubleCheck(t)
    \/ \E t \in Threads, ok \in BOOLEAN : RefreshListing(t, ok)
    \/ \E t \in Threads : FindListing(t)
    \/ \E ok \in BOOLEAN : FetchTick(ok)
    \/ RowsAge
    \/ \E ok \in BOOLEAN : ExecuteCleanup(ok)

ServeSpec == ServeSpecInit /\ [][ServeNext]_vars

(***************************************************************************)
(* Claims about the environment lookup.                                    *)
(***************************************************************************)
\* The request is between taking write_lock and dropping it.
InCritical(t) ==
    tpc[t] \in {"dc", "refresh", "find", "insert",
                "lsdc", "lsrefresh", "lsfind"}

\* The request's refresh has returned Ok and it has not yet left.
AfterRefresh(t) == tpc[t] \in {"find", "insert", "lsfind"}

C5_MutualExclusion == \A t \in Threads : InCritical(t) <=> write_lock = t

C5_TreeAtRefreshedSha ==
    \A t \in Threads :
        AfterRefresh(t) =>
            /\ tloc[t].sha = get_head_sha(head)
            /\ IsPrefix(treq[t].sha, head)
            /\ tpc[t] = "insert" =>
                   tloc[t].env \in {f.env : f \in Tree(head)}

C5_RefreshUnderLock ==
    (head' # head \/ refreshed' # refreshed) =>
        \E t \in Threads :
            /\ write_lock = t
            /\ tpc[t] \in {"refresh", "lsrefresh"}
            /\ refreshed' = refreshed \cup {t}

\* C5: at most one request is inside the critical section of get_env or
\* get_env_listing, and it is the holder of write_lock; HEAD moves only in
\* a refresh made by the holder; from a producer's refresh to sha S until
\* it leaves, HEAD stays at the commit S names, so what its find scans and
\* what it stores is the tree at S.
C5_WriterSlotSerialisesRefresh ==
    /\ [](C5_MutualExclusion /\ C5_TreeAtRefreshedSha)
    /\ [][C5_RefreshUnderLock]_vars

\* A producer has moved HEAD to CommitB and is about to scan, while another
\* request, for CommitA, waits for the lock.
C5_Witness ==
    \E t, u \in Threads :
        /\ tpc[t] = "find" /\ head = CommitB /\ t \in refreshed
        /\ tpc[u] \in {"lock", "lslock"}
        /\ IsPrefix(treq[u].sha, CommitA)

\* C6: when every caller asked get_env for the same environment TEST at
\* CommitA, which the repository holds, and all have returned, refresh was
\* called exactly once and every caller got that environment.
C6_OneRefreshForSameKey ==
    (\A t \in Threads :
        /\ tpc[t] = "done"
        /\ treq[t] = [op |-> "env", env |-> EnvTEST, sha |-> format_sha(CommitA)])
    => /\ Cardinality(refreshed) = 1
       /\ \A t \in Threads :
            tres[t].kind = "env" /\ {tres[t].val} = {f.env : f \in Tree(CommitA)}

\* C7: a call whose wait for write_lock has outlasted the bound is still
\* at the lock: the only step it takes from there is to return (which ends
\* the call and its wait), so it makes no refresh, no find and no cache
\* write.
C7_LockWaitIsBounded ==
    \A t \in Threads : expired[t] => tpc[t] \in {"lock", "lslock"}

\* What a refresh to sha followed by find and the selection of the entry
\* named env produces: at most one environment.
Direct(env, sha) ==
    LET cs == Resolve(sha, Commits) IN
    IF Cardinality(cs) # 1 THEN {}
    ELSE {f.env : f \in {g \in Tree(CHOOSE c \in cs : TRUE) :
                            /\ LowerAll(g.file) = LowerAll(env)
                            /\ g.env.environment = env}}

\* C8: every environment get_env returned from the LRU or from the table
\* is the one the direct refresh, find and selection produce for the
\* requested (env, sha).
C8_CachedEqualsDirect ==
    \A t \in Threads :
        (tres[t].kind = "env" /\ tres[t].src \in {"L1", "L2", "L2dc"}) =>
            tres[t].val \in Direct(treq[t].env, treq[t].sha)

C10_ReturnsTableHit(t) ==
    /\ tpc[t] # "done" /\ tpc'[t] = "done"
    /\ tres'[t].kind = "env"
    /\ tres'[t].src \in {"L2", "L2dc"}

\* C10: when get_env returns an environment it found in the table, before
\* the lock or in the double-check under it, the LRU holds the key.
C10_TableHitIsInLru ==
    [][\A t \in Threads :
          C10_ReturnsTableHit(t) =>
              LruHas(environments', format_key(treq[t].sha, treq[t].env))]_vars

\* C12: every environment key the LRU holds is present in the table, as a
\* read of the table for that (env, sha) sees it.
C12_LruKeysAreInTable ==
    \A r \in EnvRequests :
        LruHas(environments, format_key(format_sha(r[2]), r[1])) =>
            MatchingRows(r[1], format_sha(r[2])) # {}

C18_TickStep ==
    fetchTicks' # fetchTicks
        => /\ head' = head /\ write_lock' = write_lock
           /\ refreshed' = refreshed
           /\ tpc' = tpc /\ tloc' = tloc
           /\ environments' = environments /\ db' = db

C18_ScanAtRefreshedCommit ==
    \A t \in Threads :
        (AfterRefresh(t) /\ fetchTicks > tloc[t].tick)
            => /\ get_head_sha(head) = tloc[t].sha
               /\ write_lock = t

\* C18: a fetch tick takes no writer slot, makes no refresh or reset and
\* leaves HEAD where it is; a producer that refreshed and has a tick come
\* in before its scan still scans the commit it refreshed to, and still
\* holds the writer slot.
C18_FetchTickLeavesHeadAlone ==
    [][C18_TickStep]_vars /\ []C18_ScanAtRefreshedCommit

\* A producer refreshed, with no commit fetched so far; then a tick fetched
\* the other commit, and the producer is about to scan.
C18_Witness ==
    \E t \in Threads :
        /\ tpc[t] = "find" /\ tloc[t].tick = 0 /\ fetchTicks = 1
        /\ known = Commits /\ head = CommitA
        /\ tloc[t].sha = get_head_sha(CommitA)

(***************************************************************************)
(* The LRU tier, src/storage/lru.rs: two lru::LruCache maps of one         *)
(* capacity behind mutexes taken with a timeout.                           *)
(***************************************************************************)
MaxLruSize == 2
MaxLruCalls == 4

\* Commit ids the tier is written under: two share their first characters.
CommitA2 == <<"a", "b", "c", "d", "e", "9", "9">>
LruShas == {get_head_sha(CommitA), CommitA2, get_head_sha(CommitB)}
\* Reads also come with an abbreviated id.
LruReadShas == LruShas \cup {SubSeq(CommitA, 1, 5)}

IsSuffix(p, s) == Len(p) <= Len(s) /\ SubSeq(s, Len(s) - Len(p) + 1, Len(s)) = p

\* gen_env_key and gen_env_listing_key of lru.rs
lru_gen_key(kind, env, sha) == IF kind = "env" THEN sha \o Sep \o env ELSE sha

\* A text put into a regex as it is, matched against a text of its length:
\* a . of the pattern stands for any character, the other characters of the
\* names and ids here stand for themselves.
DotMatch(p, s) ==
    /\ Len(p) = Len(s)
    /\ \A i \in 1..Len(p) : p[i] = "." \/ p[i] = s[i]

\* gen_env_regex ^<sha>.*::<env>$ and gen_env_listing_regex ^<sha>.*$
\* applied to a key; sha and env are formatted into the pattern unescaped.
lru_regex_match(kind, env, sha, k) ==
    IF kind = "env"
    THEN /\ Len(k) >= Len(sha) + Len(Sep \o env)
         /\ DotMatch(sha, SubSeq(k, 1, Len(sha)))
         /\ DotMatch(Sep \o env, SubSeq(k, Len(k) - Len(Sep \o env) + 1, Len(k)))
    ELSE /\ Len(k) >= Len(sha)
         /\ DotMatch(sha, SubSeq(k, 1, Len(sha)))

LruKeys(kind) == {lru_gen_key(kind, EnvTEST, sha) : sha \in LruShas}

\* cache.iter() visits the entries from the most recently used one on; the
\* first whose key the regex matches, or 0.
FirstMatch(c, kind, env, sha) ==
    LET m == {i \in 1..Len(c) : lru_regex_match(kind, env, sha, c[i].key)} IN
    IF m = {} THEN 0 ELSE CHOOSE i \in m : \A j \in m : i <= j

Without(c, i) == SubSeq(c, 1, i - 1) \o SubSeq(c, i + 1, Len(c))

\* Mutant: a read does not make the entry the most recently used one.
LruPromote_Not(c, i) == c

\* cache.get(&key): the entry becomes the most recently used one.
LruPromote(c, i) == <<c[i]>> \o Without(c, i)

IndexOf(c, key) ==
    LET m == {i \in 1..Len(c) : c[i].key = key} IN
    IF m = {} THEN 0 ELSE CHOOSE i \in m : TRUE

\* cache.put(key, value): an existing key gets the value and becomes the
\* most recently used; a new key is added and, above capacity, the least
\* recently used entry is dropped.
LruPut(c, key, val, cap) ==
    LET i == IndexOf(c, key)
        e == [key |-> key, val |-> val] IN
    IF i # 0 THEN <<e>> \o Without(c, i)
    ELSE IF Len(c) >= cap THEN <<e>> \o SubSeq(c, 1, cap - 1)
    ELSE <<e>> \o c

HeldKeys(c) == {c[i].key : i \in 1..Len(c)}

\* LruEnvCache::new: a cache_size of 0 is rejected.
LruNew(n) ==
    /\ lru.state = "none"
    /\ lru' = IF n = 0 THEN [lru EXCEPT !.state = "rejected"]
              ELSE [lru EXCEPT !.state = "built", !.size = n]
    /\ lruTouched' = [kind \in {"env", "listing"} |-> [k \in LruKeys(kind) |-> 0]]
    /\ lruLast' = [op |-> "new", kind |-> "", key |-> <<>>,
                   result |-> IF n = 0 THEN <<"err", "size">> ELSE Ok]
    /\ UNCHANGED lruCalls
    /\ LruOnly

\* read_env / read_env_listing.  locked: try_lock_for gives up after its
\* 15 seconds.
LruRead(kind, env, sha, locked) ==
    LET c == lru[kind]
        i == FirstMatch(c, kind, env, sha) IN
    /\ lru.state = "built"
    /\ lruCalls < MaxLruCalls
    /\ lruCalls' = lruCalls + 1
    /\ IF locked
       THEN /\ lruLast' = [op |-> "read", kind |-> kind, key |-> <<>>,
                           result |-> <<"err", "lock">>]
            /\ UNCHANGED <<lru, lruTouched>>
       ELSE IF i = 0
       THEN /\ lruLast' = [op |-> "read", kind |-> kind, key |-> <<>>,
                           result |-> Miss]
            /\ UNCHANGED <<lru, lruTouched>>
       ELSE /\ lru' = [lru EXCEPT ![kind] = LruPromote(c, i)]
            /\ lruTouched' = [lruTouched EXCEPT ![kind][c[i].key] = lruCalls']
            /\ lruLast' = [op |-> "read", kind |-> kind, key |-> c[i].key,
                           result |-> Hit(c[i].val)]
    /\ LruOnly

\* write_env / write_env_listing.
LruWrite(kind, env, sha, d, locked) ==
    LET c == lru[kind]
        key == lru_gen_key(kind, env, sha)
        n == LruPut(c, key, d, lru.size) IN
    /\ lru.state = "built"
    /\ lruCalls < MaxLruCalls
    /\ lruCalls' = lruCalls + 1
    /\ IF locked
       THEN /\ lruLast' = [op |-> "write", kind |-> kind, key |-> key,
                           result |-> <<"err", "lock">>]
            /\ UNCHANGED <<lru, lruTouched>>
       ELSE /\ lru' = [lru EXCEPT ![kind] = n]
            /\ lruTouched' = [lruTouched EXCEPT ![kind] =
                   [k \in LruKeys(kind) |->
                       IF k = key THEN lruCalls'
                       ELSE IF k \in HeldKeys(n) THEN @[k] ELSE 0]]
            /\ lruLast' = [op |-> "write", kind |-> kind, key |-> key,
                           result |-> Ok]
    /\ LruOnly

\* clean: the tier has nothing that ages; the call returns Ok(()).
LruClean(max_age) ==
    /\ lru.state = "built"
    /\ lruCalls < MaxLruCalls
    /\ lruCalls' = lruCalls + 1
    /\ lruLast' = [op |-> "clean", kind |-> "", key |-> <<>>, result |-> Ok]
    /\ UNCHANGED <<lru, lruTouched>>
    /\ LruOnly

LruReadEnv(sha, locked) == LruRead("env", EnvTEST, sha, locked)
LruReadEnvListing(sha, locked) == LruRead("listing", EnvTEST, sha, locked)
LruWriteEnv(sha, d, locked) == LruWrite("env", EnvTEST, sha, d, locked)
LruWriteEnvListing(sha, d, locked) == LruWrite("listing", EnvTEST, sha, d, locked)

LruNext ==
    \/ \E n \in 0..MaxLruSize : LruNew(n)
    \/ \E sha \in LruReadShas, l \in BOOLEAN : LruReadEnv(sha, l)
    \/ \E sha \in LruReadShas, l \in BOOLEAN : LruReadEnvListing(sha, l)
    \/ \E sha \in LruShas, d \in Payloads, l \in BOOLEAN : LruWriteEnv(sha, d, l)
    \/ \E sha \in LruShas, d \in Payloads, l \in BOOLEAN :
          LruWriteEnvListing(sha, d, l)

LruSpecInit == HeadInit /\ MultiIdle /\ OthersIdle

LruSpec == LruSpecInit /\ [][LruNext]_vars

(***************************************************************************)
(* Claims about the LRU tier.                                              *)
(***************************************************************************)
\* The held key whose last read or write is the oldest.
OldestTouched(c) ==
    CHOOSE k \in HeldKeys(c) :
        \A j \in HeldKeys(c) : lruTouched["env"][k] <= lruTouched["env"][j]

C13_Bounded ==
    /\ lru.state = "built" => lru.size >= 1
    /\ Len(lru.env) <= lru.size
    /\ Cardinality(HeldKeys(lru.env)) = Len(lru.env)

C13_Step ==
    LET c == lru.env
        n == lru'.env IN
    (lruCalls' # lruCalls /\ lruLast'.kind = "env") =>
        IF lruLast'.op = "write" /\ lruLast'.result = Ok
        THEN LET key == lruLast'.key IN
             /\ n[IndexOf(n, key)].val \in Payloads
             /\ IF key \in HeldKeys(c)
                THEN HeldKeys(n) = HeldKeys(c)
                ELSE IF Len(c) < lru.size
                THEN HeldKeys(n) = HeldKeys(c) \cup {key}
                ELSE HeldKeys(n) = (HeldKeys(c) \ {OldestTouched(c)}) \cup {key}
             /\ \A k \in HeldKeys(n) \ {key} :
                  n[IndexOf(n, k)].val = c[IndexOf(c, k)].val
        ELSE /\ HeldKeys(n) = HeldKeys(c)
             /\ \A k \in HeldKeys(n) : n[IndexOf(n, k)].val = c[IndexOf(c, k)].val

\* C13: an LruEnvCache is built only with a capacity of at least 1 and
\* never holds more environments than its capacity; a write of a new key
\* into a full cache removes exactly the entry whose last successful read
\* or write is the oldest; a write of a held key replaces its value and
\* keeps the set of keys; reads and failed calls keep every entry.
C13_LruCapacityAndEviction == []C13_Bounded /\ [][C13_Step]_vars

\* A full cache of two entries was written a third key after its older
\* entry had been read: the entry that was written later but not read since
\* is the one that went.
C13_Witness ==
    /\ lru.state = "built" /\ lru.size = 2 /\ lruCalls = 4
    /\ lruLast.op = "write" /\ lruLast.kind = "env" /\ lruLast.result = Ok
    /\ Len(lru.env) = 2
    /\ lruTouched["env"][lru.env[2].key] = 3
    /\ \E k \in LruKeys("env") : k \notin HeldKeys(lru.env)

(***************************************************************************)
(* The sqlite tier, src/storage/sqlite.rs: one table hogan(key, data,      *)
(* timestamp) in a file; every call opens its own connection, and each     *)
(* statement is one atomic step of the database.                           *)
(***************************************************************************)
MaxTime == 5
TicksPerDay == 2
MaxSqlCalls == 3

Producers == {"p1", "p2"}
MaxAges == {0, 1}
SqlShas == {get_head_sha(CommitA)}
\* Reads also come with an abbreviated id.
SqlReadShas == SqlShas \cup {SubSeq(CommitA, 1, 5)}

sql_gen_env_key(sha, env) == env \o Sep \o sha
sql_gen_env_listing_key(sha) ==
    <<"!", "l", "i", "s", "t", "i", "n", "g">> \o Sep \o sha
sql_key(kind, sha) ==
    IF kind = "env" THEN sql_gen_env_key(sha, EnvTEST)
    ELSE sql_gen_env_listing_key(sha)

SqlKinds == {"env", "listing"}
SqlKeys == {sql_key(kind, sha) : kind \in SqlKinds, sha \in SqlShas}

\* cache::serialize_env and cache::serialize_env_listing, and their inverses.
serialize(kind, d) == <<"bzip2", <<kind, d>>>>
deserialize(kind, bytes) ==
    IF bytes[2][1] = kind THEN bytes[2][2] ELSE Err("deserialize", 0)

\* CURRENT_TIMESTAMP is the text YYYY-MM-DD HH:MM:SS; date('now', '-D days')
\* is the text YYYY-MM-DD.  The texts are modelled as the sequences of
\* their fields, the day and then the time of day.
Day(t) == t \div TicksPerDay
TimeOfDay(t) == t % TicksPerDay
CURRENT_TIMESTAMP == <<Day(now), TimeOfDay(now)>>
date(D) == <<Day(now) - D>>

\* timestamp < date(...): both operands are text, compared field by field,
\* and a text that is a proper prefix of another one is the smaller one.
RECURSIVE TextLess(_, _)
TextLess(a, b) ==
    IF b = <<>> THEN FALSE
    ELSE IF a = <<>> THEN TRUE
    ELSE IF Head(a) # Head(b) THEN Head(a) < Head(b)
    ELSE TextLess(Tail(a), Tail(b))

\* key STRING PRIMARY KEY: an INSERT of a key that has a row fails.
KeyFree_Always(key) == TRUE
KeyFree(key) == \A r \in table : r.key # key

SqlInit == SqlIdle

\* A call returns: what it was and what it gave is kept, and it is counted.
SqlReturn(op, key, result) ==
    sqlLast' = [n |-> sqlLast.n + 1, op |-> op, key |-> key,
                result |-> result]

\* write_sql_env / write_sql_env_listing up to the INSERT: the connection is
\* opened (and the table created if missing), the key and the bytes built.
\* A connection that cannot be opened ends the call with the error.
SqlOpenForWrite(p, kind, sha, d, ok) ==
    /\ p \notin DOMAIN sqlPc
    /\ sqlLast.n < MaxSqlCalls
    /\ IF ok
       THEN /\ sqlPc' = sqlPc @@ (p :> "insert")
            /\ sqlReq' = sqlReq @@ (p :> [kind |-> kind,
                                          key |-> sql_key(kind, sha),
                                          data |-> serialize(kind, d)])
            /\ UNCHANGED sqlLast
       ELSE /\ SqlReturn("write", sql_key(kind, sha), Err("open", 0))
            /\ UNCHANGED <<sqlPc, sqlReq>>
    /\ UNCHANGED <<table, now>>
    /\ SqlOnly

\* INSERT INTO hogan (key, data) VALUES (?1, ?2).
SqlInsert(p) ==
    /\ p \in DOMAIN sqlPc /\ sqlPc[p] = "insert"
    /\ IF KeyFree(sqlReq[p].key)
       THEN /\ table' = table \cup {[key |-> sqlReq[p].key,
                                     data |-> sqlReq[p].data,
                                     timestamp |-> CURRENT_TIMESTAMP]}
            /\ SqlReturn("write", sqlReq[p].key, Ok)
       ELSE /\ table' = table
            /\ SqlReturn("write", sqlReq[p].key, Err("insert", 0))
    /\ sqlPc' = [q \in DOMAIN sqlPc \ {p} |-> sqlPc[q]]
    /\ sqlReq' = [q \in DOMAIN sqlReq \ {p} |-> sqlReq[q]]
    /\ UNCHANGED now
    /\ SqlOnly

\* read_sql_env / read_sql_env_listing: SELECT data ... WHERE key LIKE ? ||
\* '%' LIMIT 1, any one of the matching rows.
SqlReadKey(kind, key, ok) ==
    /\ sqlLast.n < MaxSqlCalls
    /\ LET rows == {r \in table : Like(key \o <<"%">>, r.key)}
       IN  IF ~ok
           THEN SqlReturn("read", key, Err("open", 0))
           ELSE IF rows = {}
           THEN SqlReturn("read", key, None)
           ELSE \E r \in rows :
                   SqlReturn("read", key, deserialize(kind, r.data))
    /\ UNCHANGED <<table, now, sqlPc, sqlReq>>
    /\ SqlOnly

\* The reads of the environment TEST and of the listing.
SqlRead(kind, sha, ok) == SqlReadKey(kind, sql_key(kind, sha), ok)

\* Mutant: the rows of the cutoff day are deleted as well.
clean_db_CutoffDayToo(D) == {r \in table : r.timestamp[1] > Day(now) - D}

\* clean_db: DELETE FROM hogan WHERE timestamp < date('now', '-D days').
clean_db(D) == {r \in table : ~TextLess(r.timestamp, date(D))}

SqlClean(D, ok) ==
    /\ sqlLast.n < MaxSqlCalls
    /\ IF ok
       THEN /\ table' = clean_db(D)
            /\ SqlReturn("clean", D, Ok)
       ELSE /\ table' = table
            /\ SqlReturn("clean", D, Err("open", 0))
    /\ UNCHANGED <<now, sqlPc, sqlReq>>
    /\ SqlOnly

\* The clock of the database advances.
SqlTick ==
    /\ now < MaxTime
    /\ now' = now + 1
    /\ UNCHANGED <<table, sqlPc, sqlReq, sqlLast>>
    /\ SqlOnly

SqlNext ==
    \/ \E p \in Producers, kind \in SqlKinds, sha \in SqlShas,
          d \in Payloads, ok \in BOOLEAN :
          SqlOpenForWrite(p, kind, sha, d, ok)
    \/ \E p \in Producers : SqlInsert(p)
    \/ \E kind \in SqlKinds, sha \in SqlReadShas, ok \in BOOLEAN :
          SqlRead(kind, sha, ok)
    \/ \E D \in MaxAges, ok \in BOOLEAN : SqlClean(D, ok)
    \/ SqlTick

SqlSpecInit ==
    /\ HeadInit /\ MultiIdle /\ ServeIdle /\ LruIdle /\ SqlInit /\ CleanupIdle
    /\ FnIdle /\ WorkerIdle
SqlSpec == SqlSpecInit /\ [][SqlNext]_vars

(***************************************************************************)
(* Claims about the sqlite tier.                                           *)
(***************************************************************************)
SqlReturned == sqlLast'.n = sqlLast.n + 1

C14_OneRowPerKey == \A r1, r2 \in table : r1.key = r2.key => r1 = r2

C14_Step ==
    /\ \A p \in DOMAIN sqlPc :
         p \notin DOMAIN sqlPc'
            => /\ SqlReturned /\ sqlLast'.op = "write"
               /\ IF \E r \in table : r.key = sqlReq[p].key
                  THEN sqlLast'.result # Ok /\ table' = table
                  ELSE /\ sqlLast'.result = Ok
                       /\ table' = table \cup
                            {[key |-> sqlReq[p].key, data |-> sqlReq[p].data,
                              timestamp |-> CURRENT_TIMESTAMP]}
    /\ (SqlReturned /\ sqlLast'.op = "write" /\ sqlLast'.result # Ok)
            => table' = table

\* C14: a write_env or write_env_listing on the sqlite tier for a key that
\* has a row returns an error and leaves the table, so that row's data and
\* timestamp, as it was; the table never has two rows with one key, also
\* when two producers are inside a write of the same key at once.
C14_ExistingKeyIsNotOverwritten == []C14_OneRowPerKey /\ [][C14_Step]_vars

\* Two producers were inside a write of the same key at once, with different
\* one INSERT has failed at a later time than the row was written, the
\* other producer has still to run its INSERT with other data than the
\* row's, and the table has a row of the other kind as well.
C14_Witness ==
    /\ sqlLast.op = "write" /\ sqlLast.result = Err("insert", 0)
    /\ \E p \in DOMAIN sqlPc, r \in table :
          /\ sqlReq[p].key = sqlLast.key /\ r.key = sqlLast.key
          /\ r.data # sqlReq[p].data
          /\ TextLess(r.timestamp, CURRENT_TIMESTAMP)
    /\ Cardinality(table) = 2

\* The instant a timestamp text stands for, in ticks.
Instant(ts) == ts[1] * TicksPerDay + ts[2]

C15_Step ==
    (SqlReturned /\ sqlLast'.op = "clean" /\ sqlLast'.result = Ok)
        => \A r \in table' :
              ~(Instant(r.timestamp) < now - sqlLast'.key * TicksPerDay)

\* C15: right after a successful clean(D) on the sqlite tier at the time
\* now, the table has no row whose timestamp is earlier than now - D days,
\* whatever the time of day of the sweep and of the row's timestamp.
C15_CleanRemovesAllOlderRows == [][C15_Step]_vars

(***************************************************************************)
(* The cleanup actor, src/storage/cache.rs: on every ExecuteCleanup it     *)
(* calls clean(max_age) on each cache of its list.  A cache of the list is *)
(* a tier or a MultiCache of tiers (src/storage/multi.rs); it is modelled  *)
(* as the list of its tiers.                                               *)
(***************************************************************************)
MaxCleanTiers == 3
MaxSweeps == 2

\* The lists of caches over the tiers 1..n: consecutive tiers are grouped
\* into one MultiCache where g gives them the same cache.
Groupings(n) ==
    {g \in [1..n -> 1..n] :
        /\ g[1] = 1
        /\ \A i \in 1..(n - 1) : g[i + 1] \in {g[i], g[i] + 1}}

TiersOf(g, n, c) ==
    LET lo == CHOOSE i \in 1..n : g[i] = c /\ \A j \in 1..n : g[j] = c => i <= j
        hi == CHOOSE i \in 1..n : g[i] = c /\ \A j \in 1..n : g[j] = c => j <= i
    IN  [k \in 1..(hi - lo + 1) |-> lo + k - 1]

CleanupInit ==
    \E n \in 1..MaxCleanTiers : \E g \in Groupings(n) :
        /\ cleanupCaches = [c \in 1..g[n] |-> TiersOf(g, n, c)]
        /\ stale = [i \in 1..n |-> FALSE]
        /\ sweeps = 0
        /\ sweepLog = <<>>

CleanupSpecInit ==
    /\ HeadInit /\ MultiIdle /\ ServeIdle /\ LruIdle /\ SqlIdle /\ CleanupInit
    /\ FnIdle /\ WorkerIdle

AllTiers == DOMAIN stale

\* MultiCache::clean, and a single tier's clean as the list of one tier:
\* cache.clean(max_age)? for each tier in order.  F is the set of tiers
\* whose clean fails.
RECURSIVE multi_clean(_, _, _)
multi_clean(tiers, F, st) ==
    IF tiers = <<>> THEN [ok |-> TRUE, log |-> <<>>, stale |-> st]
    ELSE LET i == Head(tiers) IN
         IF i \in F
         THEN [ok |-> FALSE, log |-> <<Op("clean", i)>>, stale |-> st]
         ELSE LET rest == multi_clean(Tail(tiers), F, [st EXCEPT ![i] = FALSE])
              IN  [ok |-> rest.ok, log |-> <<Op("clean", i)>> \o rest.log,
                   stale |-> rest.stale]

\* The loop of CleanupActor::receive: a cache whose clean fails gets an
\* error line, and the loop goes on with the next cache.
RECURSIVE CleanCaches(_, _, _, _)
CleanCaches(cs, c, F, st) ==
    IF c > Len(cs) THEN [log |-> <<>>, stale |-> st]
    ELSE LET r == multi_clean(cs[c], F, st)
             rest == CleanCaches(cs, c + 1, F, r.stale)
         IN  [log |-> r.log
                      \o (IF r.ok THEN <<>> ELSE <<Op("error", c)>>)
                      \o rest.log,
              stale |-> rest.stale]

\* Receive<ExecuteCleanup> for CleanupActor.
CleanupReceive(F) ==
    /\ cleanupCaches # <<>>
    /\ sweeps < MaxSweeps
    /\ LET r == CleanCaches(cleanupCaches, 1, F, stale) IN
          /\ sweepLog' = r.log
          /\ stale' = r.stale
    /\ sweeps' = sweeps + 1
    /\ UNCHANGED cleanupCaches
    /\ CleanupOnly

\* An entry of a tier gets older than max_age.
TierGetsStale(i) ==
    /\ ~stale[i]
    /\ stale' = [stale EXCEPT ![i] = TRUE]
    /\ UNCHANGED <<cleanupCaches, sweeps, sweepLog>>
    /\ CleanupOnly

CleanupNext ==
    \/ \E F \in SUBSET AllTiers : CleanupReceive(F)
    \/ \E i \in AllTiers : TierGetsStale(i)

CleanupSpec == CleanupSpecInit /\ [][CleanupNext]_vars

(***************************************************************************)
(* Claims about the cleanup actor.                                         *)
(***************************************************************************)
Invoked(log, i) == \E k \in 1..Len(log) : log[k] = Op("clean", i)

C16_Step ==
    sweeps' = sweeps + 1 => \A i \in AllTiers : Invoked(sweepLog', i)

\* C16: a cleanup sweep calls clean(max_age) on every configured tier,
\* also on the tiers that come after one whose clean has failed, and a
\* sweep can follow a sweep with a failure.
C16_SweepReachesEveryTier ==
    /\ [][C16_Step]_vars
    /\ [](sweeps < MaxSweeps => ENABLED CleanupReceive({}))

(***************************************************************************)
(* The fetch actor on its own, src/app/fetch_actor.rs: the scheduler sends *)
(* it ExecuteFetch again and again, whatever the earlier ticks did.        *)
(***************************************************************************)
MaxTicks == 23

FetchInit ==
    /\ FetchIdle
    /\ environments = <<>> /\ environment_listings = <<>> /\ db = {}
    /\ head \in Commits /\ known = {head}
    /\ allow_fetch \in BOOLEAN
    /\ write_lock = 0 /\ maintenance_count = 0
    /\ tpc = [t \in Threads |-> "idle"]
    /\ treq = [t \in Threads |-> NoReq]
    /\ tloc = [t \in Threads |-> NoLoc]
    /\ tres = [t \in Threads |-> NoRes]
    /\ expired = [t \in Threads |-> FALSE]
    /\ refreshed = {}

FetchSpecInit ==
    HeadInit /\ MultiIdle /\ FetchInit /\ TiersIdle /\ RouteIdle /\ FnIdle /\ WorkerIdle

FetchPoll(ok) ==
    /\ fetchTicks < MaxTicks
    /\ ExecuteFetch(ok)

FetchNext == \E ok \in BOOLEAN : FetchPoll(ok)

FetchSpec == FetchSpecInit /\ [][FetchNext]_vars

(***************************************************************************)
(* Claims about the fetch actor.                                           *)
(***************************************************************************)
MaintainedIn(lo, hi) ==
    {k \in 1..Len(maintenanceLog) :
        lo <= maintenanceLog[k] /\ maintenanceLog[k] <= hi}

\* C17: perform_maintenance is called on every tenth ExecuteFetch: exactly
\* once in any ten consecutive ticks, ticks with a failed fetch counted
\* like the others; the counter is 0 after a tick with maintenance, and a
\* tick can follow whatever the earlier ticks did.
C17_MaintenanceEveryTenthTick ==
    /\ \A lo \in 1..fetchTicks :
          lo + MaintenanceEvery - 1 <= fetchTicks
             => Cardinality(MaintainedIn(lo, lo + MaintenanceEvery - 1)) = 1
    /\ (MaintainedIn(fetchTicks, fetchTicks) # {} => maintenance_count = 0)
    /\ (fetchTicks < MaxTicks => ENABLED FetchPoll(FALSE))

(***************************************************************************)
(* POST transform/{sha}/{env}, src/app/server.rs: transform_route_sha_env  *)
(* and transform_from_sha on top of get_env.                               *)
(***************************************************************************)
RouteThreads == {t \in Threads : t <= 2}

Master == <<"m", "a", "s", "t", "e", "r">>
Feed == <<"f", "e", "e", "d">>
UpperA == <<"A", "B", "C", "D", "E", "F", "0">>
\* The {sha} segments of the requests: a commit id, a branch name, a branch
\* name of hex digits only, a commit id in capitals.
TransformShas == {CommitA, SubSeq(CommitA, 1, 5), Master, Feed, UpperA}
\* The {env} segments: an environment of the tree, and a name no file has.
TransformEnvs == {EnvTEST, EnvLower}

Templates == {"wellformed", "malformed"}

HexChars == {"a", "b", "c", "d", "e", "f",
             "0", "1", "2", "3", "4", "5", "6", "7", "8", "9"}

\* HEX_REGEX, ^[a-f0-9]+$.
HEX_REGEX_AnyText(text) == TRUE
HEX_REGEX(text) == text # <<>> /\ \A i \in 1..Len(text) : text[i] \in HexChars

\* handlebars.render_template(&data, &env.config_data), map_err to
\* InvalidTemplate.
render_template(data, config_data) ==
    IF data = "malformed" THEN ErrRes(<<"InvalidTemplate">>)
    ELSE [kind |-> "body", val |-> <<data, config_data>>, src |-> ""]

\* l2errs: the errors of the table this request has met, in their order.
NoRoute ==
    [stage |-> "none", raw |-> <<>>, sha |-> <<>>, env |-> <<>>, data |-> "",
     asked |-> FALSE, resp |-> NoRes, l2errs |-> <<>>]

RouteInit == route = [t \in Threads |-> NoRoute] /\ headAsked = 0

TransformSpecInit ==
    /\ HeadInit /\ MultiIdle /\ TiersIdle /\ RouteInit /\ FnIdle /\ WorkerIdle
    /\ ServeInit

RouteOnly ==
    UNCHANGED <<headVars, multiVars, tierVars, fetchVars, serveVars, fnVars, workerVars>>

\* transform_route_sha_env up to the lookup: a segment that is not hex goes
\* to the head resolver (find_branch_head), and the closure waits for it.
TransformRoute(t, raw, env, data) ==
    /\ route[t].stage = "none" /\ tpc[t] = "idle"
    /\ IF ~HEX_REGEX(raw)
       THEN /\ route' = [route EXCEPT ![t] =
                           [stage |-> "resolve", raw |-> raw, sha |-> <<>>,
                            env |-> env, data |-> data, asked |-> TRUE,
                            resp |-> NoRes, l2errs |-> <<>>]]
            /\ headAsked' = headAsked + 1
       ELSE /\ route' = [route EXCEPT ![t] =
                           [stage |-> "lookup", raw |-> raw, sha |-> raw,
                            env |-> env, data |-> data, asked |-> FALSE,
                            resp |-> NoRes, l2errs |-> <<>>]]
            /\ UNCHANGED headAsked
    /\ RouteOnly

\* The head resolver answers: Ok(sha) goes on to the lookup, Err(e) is what
\* the request returns.
BranchHead(t, res) ==
    /\ route[t].stage = "resolve"
    /\ route' = [route EXCEPT ![t] =
                    IF res.kind = "err"
                    THEN [@ EXCEPT !.stage = "responded", !.resp = res]
                    ELSE [@ EXCEPT !.stage = "lookup", !.sha = res.val]]
    /\ UNCHANGED headAsked
    /\ RouteOnly

\* What the head resolver can answer: the head of the branch, or an error.
BranchHeadResults ==
    {[kind |-> "sha", val |-> c, src |-> ""] : c \in Commits}
        \cup {ErrRes(<<"UnknownBranch">>)}

\* transform_from_sha: format_sha(sha) and the call of get_env.
TransformLookup(t) ==
    /\ route[t].stage = "lookup"
    /\ GetEnvCall(t, route[t].env, route[t].sha)

\* Mutant: a template that does not render takes the entry out of the LRU.
TransformRender_DropsEntry(t) ==
    LET r == IF tres[t].kind = "err" THEN tres[t]
             ELSE render_template(route[t].data, tres[t].val.config_data) IN
    /\ route[t].stage = "lookup" /\ tpc[t] = "done"
    /\ route' = [route EXCEPT ![t].stage = "responded", ![t].resp = r]
    /\ environments' =
          IF r = ErrRes(<<"InvalidTemplate">>)
          THEN LruWithout(environments, format_key(treq[t].sha, treq[t].env))
          ELSE environments
    /\ UNCHANGED <<headAsked, headVars, multiVars, tierVars, fetchVars, fnVars, workerVars,
                   environment_listings, db, head, known, allow_fetch,
                   write_lock, maintenance_count, tpc, treq, tloc, tres,
                   expired, refreshed>>

\* transform_from_sha after get_env has returned: its error (the ?), or the
\* rendering of the template over the environment's config_data.
TransformRender(t) ==
    LET r == IF tres[t].kind = "err" THEN tres[t]
             ELSE render_template(route[t].data, tres[t].val.config_data) IN
    /\ route[t].stage = "lookup" /\ tpc[t] = "done"
    /\ route' = [route EXCEPT ![t].stage = "responded", ![t].resp = r]
    /\ UNCHANGED headAsked
    /\ RouteOnly

\* The steps of get_env that use the table, with the errors they meet
\* noted on the request.
L2Error(t, kind, failed) ==
    /\ route' = [route EXCEPT ![t].l2errs =
                    IF failed THEN Append(@, kind) ELSE @]
    /\ UNCHANGED <<headAsked, headVars, multiVars, tierVars, fetchVars, fnVars, workerVars>>

TransformReadDb(t, ok) == ReadDbStep(t, ok) /\ L2Error(t, "read", ~ok)

TransformDoubleCheck(t, ok) ==
    DoubleCheckStep(t, ok) /\ L2Error(t, "read", ~ok)

TransformFindEnv(t, ok) ==
    /\ FindEnvStep(t, ok)
    /\ L2Error(t, "write",
               /\ tpc'[t] = "insert"
               /\ ~ok \/ ~CanInsert(gen_env_key(tloc[t].sha, treq[t].env)))

TransformNext ==
    \/ \E t \in RouteThreads, raw \in TransformShas, env \in TransformEnvs,
          data \in Templates : TransformRoute(t, raw, env, data)
    \/ \E t \in RouteThreads, res \in BranchHeadResults : BranchHead(t, res)
    \/ \E t \in RouteThreads : TransformLookup(t)
    \/ \E t \in RouteThreads : TransformRender(t)
    \/ \E t \in Threads, ok \in BOOLEAN : TransformReadDb(t, ok)
    \/ \E t \in Threads : InsertFromDb(t)
    \/ \E t \in Threads : AcquireLock(t)
    \/ \E t \in Threads, ok \in BOOLEAN : TransformDoubleCheck(t, ok)
    \/ \E t \in Threads, ok \in BOOLEAN : RefreshEnv(t, ok)
    \/ \E t \in Threads, ok \in BOOLEAN : TransformFindEnv(t, ok)
    \/ \E t \in Threads : InsertFromGit(t)

TransformSpec == TransformSpecInit /\ [][TransformNext]_vars

(***************************************************************************)
(* Claims about the transform route.                                       *)
(***************************************************************************)
RouteKey(t) == format_key(format_sha(route[t].sha), route[t].env)

Cached(t) ==
    \/ LruHas(environments, RouteKey(t))
    \/ MatchingRows(route[t].env, format_sha(route[t].sha)) # {}

\* The step in which the request answers after its lookup.
Renders(t) == route[t].stage = "lookup" /\ route'[t].stage = "responded"

C19_RenderStep ==
    \A t \in RouteThreads :
        Renders(t)
            => /\ environments' = environments /\ db' = db
               /\ environment_listings' = environment_listings
               /\ write_lock # t /\ write_lock' = write_lock
               /\ (tres[t].kind = "env" /\ route[t].data = "malformed")
                     => route'[t].resp = ErrRes(<<"InvalidTemplate">>)
               /\ (tres[t].kind = "env" /\ Cached(t)) => Cached(t)'

C19_LookupStep ==
    \A t \in RouteThreads :
        (tpc[t] # "done" /\ tpc'[t] = "done" /\ tres'[t].kind = "env")
            => Cached(t)' /\ write_lock' # t

\* C19: a transform whose template does not render answers InvalidTemplate
\* and leaves both caches as the lookup left them; the lookup has given the
\* writer slot back before the rendering, and the environment it returned
\* is in a cache, where a later request for the same key finds it.
C19_RenderFailureKeepsCaches == [][C19_RenderStep /\ C19_LookupStep]_vars

\* A request read its environment from the repository and answered
\* InvalidTemplate; its entry is in the LRU and in the table, the writer
\* slot is free, and another request for the same key is about to look up.
C19_Witness ==
    \E t, u \in RouteThreads :
        /\ route[t].stage = "responded"
        /\ route[t].resp = ErrRes(<<"InvalidTemplate">>)
        /\ tres[t].kind = "env" /\ tres[t].src = "git"
        /\ LruHas(environments, RouteKey(t))
        /\ MatchingRows(route[t].env, format_sha(route[t].sha)) # {}
        /\ write_lock = 0
        /\ route[u].stage = "lookup" /\ tpc[u] = "idle"
        /\ RouteKey(u) = RouteKey(t)

C20_RouteStep ==
    \A t \in RouteThreads :
        (route[t].stage = "none" /\ route'[t].stage # "none")
            => IF /\ route'[t].raw # <<>>
                  /\ \A i \in 1..Len(route'[t].raw) : route'[t].raw[i] \in HexChars
               THEN /\ headAsked' = headAsked
                    /\ route'[t].stage = "lookup"
                    /\ route'[t].sha = route'[t].raw
               ELSE /\ headAsked' = headAsked + 1
                    /\ route'[t].stage = "resolve"

C20_ResolveStep ==
    \A t \in RouteThreads :
        (route[t].stage = "resolve" /\ route'[t].stage # "resolve")
            => /\ UNCHANGED serveVars
               /\ \/ route'[t].stage = "lookup" /\ route'[t].sha \in Commits
                  \/ /\ route'[t].stage = "responded"
                     /\ route'[t].resp = ErrRes(<<"UnknownBranch">>)

C20_LookupWithSha ==
    \A t \in RouteThreads :
        /\ route[t].stage \in {"none", "resolve"} => tpc[t] = "idle"
        /\ (route[t].stage = "responded" /\ route[t].sha = <<>>)
              => tpc[t] = "idle" /\ route[t].asked
        /\ tpc[t] # "idle"
              => /\ treq[t].sha = format_sha(route[t].sha)
                 /\ treq[t].env = route[t].env

\* C20: a {sha} segment of hex digits is looked up as it is, without a
\* query to the head resolver; any other segment is sent to the head
\* resolver as a branch name and the lookup runs with the sha it answers;
\* when it answers an error, the request returns that error and never
\* starts a lookup, so it touches neither the caches nor the repository.
C20_HexIsShaElseBranch ==
    [][C20_RouteStep /\ C20_ResolveStep]_vars /\ []C20_LookupWithSha

\* One request came with a branch name, the head resolver answered the
\* other commit and the request was served from the repository at that
\* commit; another one came with a commit id and was looked up directly;
\* a third one's branch was unknown to the head resolver.
C20_Witness ==
    \E t, u \in RouteThreads :
        /\ route[t].raw = Master /\ route[t].stage = "responded"
        /\ route[t].resp.kind = "body"
        /\ treq[t].sha = format_sha(CommitB) /\ tres[t].src = "git"
        /\ route[u].raw = CommitA /\ ~route[u].asked
        /\ tpc[u] = "done" /\ treq[u].sha = format_sha(CommitA)
        /\ headAsked = 1

\* The step in which get_env finds no environment of the requested name.
MissesEnv(t) ==
    /\ tpc[t] = "find" /\ tpc'[t] = "done"
    /\ \A f \in Tree(head) : f.env.environment # treq[t].env

C21_Step ==
    \A t \in Threads :
        MissesEnv(t)
            => /\ tres'[t] = ErrRes(<<"UnknownEnvironment", treq[t].sha,
                                      treq[t].env>>)
               /\ environments' = environments /\ db' = db
               /\ environment_listings' = environment_listings
               /\ write_lock = t /\ write_lock' = 0

\* C21: when the tree at the requested sha has no environment named env,
\* get_env returns UnknownEnvironment with the sha and the env of its
\* caller, writes neither the LRU nor the table, and gives the writer slot
\* back.
C21_UnknownEnvironmentCarriesRequest == [][C21_Step]_vars

Errs(t) == Len(route[t].l2errs)
NewL2Error(t) == Len(route'[t].l2errs) = Errs(t) + 1

C22_Step ==
    \A t \in RouteThreads :
        /\ (tpc[t] = "l2" /\ NewL2Error(t))
              => /\ tpc'[t] = "lock"
                 /\ UNCHANGED <<environments, db, tres>>
        /\ (tpc[t] = "dc" /\ NewL2Error(t))
              => /\ tpc'[t] = "refresh" /\ write_lock' = t
                 /\ UNCHANGED <<environments, db, tres>>
        /\ (tpc[t] = "find" /\ NewL2Error(t))
              => /\ tpc'[t] = "insert" /\ db' = db
                 /\ tloc'[t].env \in {f.env : f \in Tree(head)}
        /\ (tpc[t] = "insert" /\ tpc'[t] = "done")
              => /\ tres'[t] = EnvRes(tloc[t].env, "git")
                 /\ LruHas(environments', format_key(treq[t].sha, treq[t].env))

C22_NoTableErrorReturned ==
    \A t \in RouteThreads :
        (tpc[t] = "done" /\ tres[t].kind = "err")
            => tres[t].val[1] \in {"UnknownSHA", "GitError", "UnknownEnvironment"}

\* C22: in get_env an error of a read of the table counts as a miss, the
\* call goes on to the writer slot and the repository; an error of the write
\* to the table after find leaves the call on its way: the environment is
\* put into the LRU and returned.
C22_TableErrorsAreDegraded == [][C22_Step]_vars /\ []C22_NoTableErrorReturned

\* A call whose two reads of the table and whose write to it all failed has
\* returned the environment of the repository, which is in the LRU and not
\* in the table.
C22_Witness ==
    \E t \in RouteThreads :
        /\ route[t].l2errs = <<"read", "read", "write">>
        /\ tpc[t] = "done" /\ tres[t].kind = "env" /\ tres[t].src = "git"
        /\ LruHas(environments, format_key(treq[t].sha, treq[t].env))
        /\ db = {}

\* ------------------------------------------------------------------------
\* ConfigDir::find (src/config.rs): the layers of an environment's data
\* ------------------------------------------------------------------------

FnOnly ==
    UNCHANGED <<headVars, multiVars, serveVars, tierVars, fetchVars, routeVars,
                workerVars>>

\* serde_json::Value: null, a number, an array, or an object, which is a
\* map from keys to values.
\* Every value has the four fields, of which t says which one counts.
NoMembers == [k \in {} |-> 0]
Null == [t |-> "null", n |-> 0, a |-> <<>>, v |-> NoMembers]
Number(n) == [t |-> "number", n |-> n, a |-> <<>>, v |-> NoMembers]
Array(s) == [t |-> "array", n |-> 0, a |-> s, v |-> NoMembers]
Object(f) == [t |-> "object", n |-> 0, a |-> <<>>, v |-> f]

is_object(x) == x.t = "object"
is_null(x) == x.t = "null"

\* The keys and the values of the configuration files considered: two keys,
\* each absent or holding null, a number, an array or an object of one key.
JsonKeys == {"a", "b"}
Inner ==
    {Object([k \in {"a"} |-> Number(1)]), Object([k \in {"a"} |-> Null]),
     Object([k \in {"b"} |-> Number(2)])}
Members == {Null, Number(1), Number(2), Array(<<Number(1), Null>>)} \cup Inner
ConfigData == {Object(f) : f \in UNION {[K -> Members] : K \in SUBSET JsonKeys}}

as_object(x) == IF is_object(x) THEN x.v ELSE NoMembers

\* json_patch::merge(doc, patch) as a value: the new contents of doc. The
\* mutant keeps a key whose value in the patch is null, with that null.
RECURSIVE merge_KeepsNull(_, _)
merge_KeepsNull(doc, patch) ==
    IF ~is_object(patch) THEN patch
    ELSE LET map == as_object(doc)
             keys == DOMAIN map \cup DOMAIN patch.v
         IN  Object([k \in keys |->
                 IF k \in DOMAIN patch.v
                 THEN merge_KeepsNull(
                          IF k \in DOMAIN map THEN map[k] ELSE Null,
                          patch.v[k])
                 ELSE map[k]])

\* A patch that is no object replaces doc; a doc that is no object counts as
\* the empty object; then every key of the patch is removed from doc when
\* its value is null and merged into doc's value (null when absent)
\* otherwise.
RECURSIVE merge(_, _)
merge(doc, patch) ==
    IF ~is_object(patch) THEN patch
    ELSE LET map == as_object(doc)
             removed == {k \in DOMAIN patch.v : is_null(patch.v[k])}
             keys == (DOMAIN map \cup DOMAIN patch.v) \ removed
         IN  Object([k \in keys |->
                 IF k \in DOMAIN patch.v
                 THEN merge(IF k \in DOMAIN map THEN map[k] ELSE Null,
                            patch.v[k])
                 ELSE map[k]])

\* The overlay files of a directory: environment type -> its config_data.
TypeNames == {"global", "web"}
EnvironmentTypes ==
    UNION {[N -> ConfigData] : N \in SUBSET TypeNames}

find_env_type_data(types, name) ==
    IF name \in DOMAIN types THEN types[name] ELSE Null

\* What find makes of one environment file: parent is the overlay of the
\* environment's type, merged is global with parent merged in, config_data
\* is merged with the environment's own data merged in.
find_config_data(types, environment) ==
    LET global == find_env_type_data(types, "global")
        parent == IF environment.environment_type # None
                  THEN find_env_type_data(types, environment.environment_type)
                  ELSE Null
        merged == merge(global, parent)
    IN  [global |-> global, parent |-> parent, merged |-> merged,
         config_data |-> merge(merged, environment.config_data)]

\* A directory with its overlay files and one environment file, which names
\* the type web or none.
FindInit ==
    /\ input \in [types : EnvironmentTypes,
                  environment : [environment_type : {None, "web"},
                                 config_data : ConfigData]]
    /\ output = <<>>

Find ==
    /\ output = <<>>
    /\ output' = find_config_data(input.types, input.environment)
    /\ input' = input
    /\ FnOnly

FindSpecInit == HeadInit /\ MultiIdle /\ ServeIdle /\ TiersIdle /\ FindInit
    /\ WorkerIdle

FindNext == Find

FindSpec == FindSpecInit /\ [][FindNext]_vars

Found == output # <<>>

\* The keys of the global overlay that no later layer mentions.
Untouched ==
    {k \in DOMAIN as_object(output.global) :
        /\ k \notin DOMAIN as_object(output.parent)
        /\ k \notin DOMAIN input.environment.config_data.v}

\* C23: the config_data of an environment found is the global overlay with
\* the overlay of its type and then its own data merged in, and every key of
\* the global overlay that no later layer overrides or deletes is in it,
\* whether or not the environment names a type and whether or not that type
\* has an overlay file.
C23_GlobalKeysSurvive ==
    Found =>
        /\ output.config_data =
              merge(merge(output.global, output.parent),
                    input.environment.config_data)
        /\ \A k \in Untouched :
              /\ k \in DOMAIN output.config_data.v
              /\ output.config_data.v[k] = output.global.v[k]

\* What merging the object src into dst must have made of one key whose
\* value in src is an object of plain members: res holds the members of
\* dst's object (none when dst holds no object there), those that src sets
\* replaced, those that src sets to null removed.
MembersMerged(dst, src, res) ==
    LET d == as_object(dst) IN
    /\ is_object(res)
    /\ DOMAIN res.v = (DOMAIN d \cup DOMAIN src.v)
                          \ {j \in DOMAIN src.v : is_null(src.v[j])}
    /\ \A j \in DOMAIN res.v :
          res.v[j] = IF j \in DOMAIN src.v THEN src.v[j] ELSE d[j]

\* What merging the object src into dst must have made, key by key.
LayerMerged(dst, src, res) ==
    LET d == as_object(dst) IN
    /\ is_object(res)
    /\ \A k \in DOMAIN src.v : is_null(src.v[k]) => k \notin DOMAIN res.v
    /\ \A k \in DOMAIN src.v : ~is_null(src.v[k]) => k \in DOMAIN res.v
    /\ \A k \in DOMAIN d \ DOMAIN src.v :
          k \in DOMAIN res.v /\ res.v[k] = d[k]
    /\ \A k \in DOMAIN res.v : k \in DOMAIN d \cup DOMAIN src.v
    /\ \A k \in DOMAIN src.v :
          /\ src.v[k].t \in {"number", "array"} => res.v[k] = src.v[k]
          /\ is_object(src.v[k]) =>
                MembersMerged(IF k \in DOMAIN d THEN d[k] ELSE Null,
                              src.v[k], res.v[k])

\* A key that the type overlay deletes and the environment sets.
Reset(k) ==
    /\ is_object(output.parent)
    /\ k \in DOMAIN output.parent.v /\ is_null(output.parent.v[k])
    /\ k \in DOMAIN input.environment.config_data.v
    /\ ~is_null(input.environment.config_data.v[k])

\* C24: merging a JSON object into a destination, as find does with the
\* type overlay into the global one and with the environment's data into
\* the result, replaces numbers and arrays by the source's value, merges
\* objects key by key, keeps the destination's keys that the source lacks
\* and removes a key whose value in the source is null; a key that one
\* layer deletes by null and a later layer sets holds the later value.
C24_MergeLayers ==
    Found =>
        /\ is_object(output.parent)
              => LayerMerged(output.global, output.parent, output.merged)
        /\ LayerMerged(output.merged, input.environment.config_data,
                       output.config_data)
        /\ \A k \in JsonKeys :
              Reset(k) =>
                  LET later == input.environment.config_data.v[k] IN
                  /\ k \in DOMAIN output.config_data.v
                  /\ IF is_object(later)
                     THEN MembersMerged(Null, later, output.config_data.v[k])
                     ELSE output.config_data.v[k] = later

\* The global overlay sets a to 1 and b to {a: 1}; the type overlay deletes
\* a and sets b to {b: 2}; the environment sets a to 2: a is 2 and b holds
\* both members.
C24_Witness ==
    /\ Found
    /\ output.global = Object([k \in JsonKeys |->
          IF k = "a" THEN Number(1) ELSE Object([j \in {"a"} |-> Number(1)])])
    /\ output.parent = Object([k \in JsonKeys |->
          IF k = "a" THEN Null ELSE Object([j \in {"b"} |-> Number(2)])])
    /\ input.environment.config_data = Object([k \in {"a"} |-> Number(2)])
    /\ output.merged = Object([k \in {"b"} |->
          Object([j \in JsonKeys |-> IF j = "a" THEN Number(1) ELSE Number(2)])])
    /\ output.config_data = Object([k \in JsonKeys |->
          IF k = "a" THEN Number(2)
          ELSE Object([j \in JsonKeys |->
                   IF j = "a" THEN Number(1) ELSE Number(2)])])

\* ------------------------------------------------------------------------
\* ConfigDir::refresh (src/config.rs) on its own, for both kinds of source
\* ------------------------------------------------------------------------

\* A commit id that no repository holds.
NoCommit == <<"d", "e", "a", "d", "0", "0", "0">>

RefreshTargets ==
    {CommitA, get_head_sha(CommitA), SubSeq(CommitA, 1, 5),
     CommitB, get_head_sha(CommitB), SubSeq(CommitB, 1, 5), NoCommit}

\* ConfigDir::refresh(remote, Some(target), allow_fetch): what it returns and
\* what it makes of the clone.  The File variant returns an error; the Git
\* variant is git::reset, whose Ok is get_head_sha of the new HEAD.
refresh(config_dir, target, fetchOk) ==
    IF config_dir = "File"
    THEN [ok |-> FALSE, sha |-> <<>>, err |-> <<"GitError">>,
          head |-> head, known |-> known, fetched |-> FALSE]
    ELSE LET r == reset(target, fetchOk) IN
         [ok |-> r.ok, sha |-> IF r.ok THEN get_head_sha(r.head) ELSE <<>>,
          err |-> r.err, head |-> r.head, known |-> r.known,
          fetched |-> r.fetched]

\* A source of either kind; for the Git kind a clone that holds CommitA and
\* has it checked out, while the remote holds both commits.
RefreshInit ==
    /\ ServeInit
    /\ input \in [config_dir : {"File", "Git"}]
    /\ output = <<>>

\* The remotes a caller names: none, which stands for origin, or one.
Remotes == {None, "origin", "upstream"}

\* One call of refresh.  output keeps the call: its remote, its target, its
\* result and the clone it found.
RefreshCall(remote, target, fetchOk) ==
    LET r == refresh(input.config_dir, target, fetchOk) IN
    /\ head' = r.head
    /\ known' = r.known
    /\ output' = [remote |-> IF remote = None THEN "origin" ELSE remote,
                  target |-> target, fetchOk |-> fetchOk, ok |-> r.ok,
                  sha |-> r.sha, err |-> r.err, fetched |-> r.fetched,
                  head |-> head, known |-> known]
    /\ input' = input
    /\ UNCHANGED <<environments, environment_listings, db, allow_fetch,
                   write_lock, maintenance_count, tpc, treq, tloc, tres,
                   expired, refreshed>>
    /\ UNCHANGED <<headVars, multiVars, tierVars, fetchVars, routeVars, workerVars>>

RefreshSpecInit ==
    HeadInit /\ MultiIdle /\ TiersIdle /\ RouteIdle /\ RefreshInit
    /\ WorkerIdle

RefreshNext ==
    \E remote \in Remotes, target \in RefreshTargets, fetchOk \in BOOLEAN :
        RefreshCall(remote, target, fetchOk)

RefreshSpec == RefreshSpecInit /\ [][RefreshNext]_vars

Refreshed == output # <<>>

\* C25: refresh on a source that is a directory succeeds for every target,
\* changes nothing and returns an id, so that get_env and get_env_listing
\* go on to find.
C25_FileRefreshSucceeds ==
    (Refreshed /\ input.config_dir = "File")
        => /\ output.ok /\ output.sha # <<>>
           /\ head = output.head /\ known = output.known

\* The target is in the clone the call found.
Local == Cardinality(Resolve(output.target, output.known)) = 1

Nothing == <<>>
Some(x) == <<x>>

\* Texts and byte strings are sequences of units, each a string: a
\* character of a name, a token of a JSON text, or a number in decimal.
Numerals ==
    <<"0", "1", "2", "3", "4", "5", "6", "7", "8", "9", "10", "11", "12",
      "13", "14", "15", "16", "17", "18", "19", "20", "21", "22", "23", "24">>
Numeral(n) == Numerals[n + 1]
ToNat(u) == CHOOSE n \in 0..(Len(Numerals) - 1) : Numerals[n + 1] = u

\* serde_json's map keeps its keys in order.
KeyOrder == <<"a", "b">>

RECURSIVE Joined(_)
Joined(parts) ==
    IF Len(parts) = 0 THEN <<>>
    ELSE IF Len(parts) = 1 THEN parts[1]
    ELSE parts[1] \o <<",">> \o Joined(Tail(parts))

\* Value::to_string: the JSON text of a value.
RECURSIVE to_string(_)
to_string(x) ==
    CASE x.t = "null" -> <<"null">>
      [] x.t = "number" -> <<Numeral(x.n)>>
      [] x.t = "array" ->
            <<"[">> \o Joined([i \in 1..Len(x.a) |-> to_string(x.a[i])])
                    \o <<"]">>
      [] x.t = "object" ->
            LET ks == SelectSeq(KeyOrder, LAMBDA k : k \in DOMAIN x.v) IN
            <<"{">> \o Joined([i \in 1..Len(ks) |->
                                  <<ks[i], ":">> \o to_string(x.v[ks[i]])])
                    \o <<"}">>

\* serde_json::from_str: the value of a JSON text, read from the left; each
\* operator answers the value it read and the text after it.
RECURSIVE parse_value(_)
RECURSIVE parse_elements(_, _)
RECURSIVE parse_members(_, _)
parse_value(text) ==
    CASE Head(text) = "null" -> [val |-> Null, rest |-> Tail(text)]
      [] Head(text) = "[" -> parse_elements(Tail(text), <<>>)
      [] Head(text) = "{" -> parse_members(Tail(text), NoMembers)
      [] OTHER -> [val |-> Number(ToNat(Head(text))), rest |-> Tail(text)]

parse_elements(text, acc) ==
    IF Head(text) = "]" THEN [val |-> Array(acc), rest |-> Tail(text)]
    ELSE LET from == IF Head(text) = "," THEN Tail(text) ELSE text
             r == parse_value(from)
         IN  parse_elements(r.rest, Append(acc, r.val))

parse_members(text, acc) ==
    IF Head(text) = "}" THEN [val |-> Object(acc), rest |-> Tail(text)]
    ELSE LET from == IF Head(text) = "," THEN Tail(text) ELSE text
             key == Head(from)
             r == parse_value(Tail(Tail(from)))
         IN  parse_members(r.rest,
                 [k \in DOMAIN acc \cup {key} |->
                     IF k = key THEN r.val ELSE acc[k]])

from_str(text) == parse_value(text).val

\* From<&Environment> for WritableEnvironment.  The mutant leaves the type
\* out.
WritableEnvironment_from_NoType(environment) ==
    [config_data |-> to_string(environment.config_data),
     environment |-> environment.environment,
     environment_type |-> Nothing]

WritableEnvironment_from(environment) ==
    [config_data |-> to_string(environment.config_data),
     environment |-> environment.environment,
     environment_type |-> environment.environment_type]

\* From<WritableEnvironment> for Environment.
Environment_from(environment) ==
    [config_data |-> from_str(environment.config_data),
     environment |-> environment.environment,
     environment_type |-> environment.environment_type]

\* bincode: a string is its length and its units, an option is 0 or 1 and
\* the value, a vector is its length and its elements, a struct is its
\* fields in order.  Each reader answers the value and the bytes after it.
bincode_string(str) == <<Numeral(Len(str))>> \o str
bincode_option(opt) ==
    IF opt = Nothing THEN <<"0">> ELSE <<"1">> \o bincode_string(opt[1])

read_string(bytes) ==
    LET n == ToNat(Head(bytes)) IN
    [val |-> SubSeq(bytes, 2, n + 1), rest |-> SubSeq(bytes, n + 2, Len(bytes))]
read_option(bytes) ==
    IF Head(bytes) = "0" THEN [val |-> Nothing, rest |-> Tail(bytes)]
    ELSE LET r == read_string(Tail(bytes)) IN
         [val |-> Some(r.val), rest |-> r.rest]

\* An EnvironmentDescription: the name and the type of an environment.
bincode_description(d) ==
    bincode_string(d.name) \o bincode_option(d.environment_type)
read_description(bytes) ==
    LET name == read_string(bytes)
        type == read_option(name.rest)
    IN  [val |-> [name |-> name.val, environment_type |-> type.val],
         rest |-> type.rest]

RECURSIVE bincode_descriptions(_)
bincode_descriptions(l) ==
    IF l = <<>> THEN <<>>
    ELSE bincode_description(Head(l)) \o bincode_descriptions(Tail(l))

RECURSIVE read_descriptions(_, _)
read_descriptions(n, bytes) ==
    IF n = 0 THEN <<>>
    ELSE LET r == read_description(bytes) IN
         <<r.val>> \o read_descriptions(n - 1, r.rest)

\* compress_data and decompress_data: the BZip2 stream of the bytes.
compress_data(data) == <<"BZh6", data>>
decompress_data(data) == data[2]

serialize_env(data) ==
    LET w == WritableEnvironment_from(data) IN
    compress_data(bincode_string(w.config_data)
                      \o bincode_string(w.environment)
                      \o bincode_option(w.environment_type))

deserialize_env(data) ==
    LET config_data == read_string(decompress_data(data))
        environment == read_string(config_data.rest)
        environment_type == read_option(environment.rest)
    IN  Environment_from([config_data |-> config_data.val,
                          environment |-> environment.val,
                          environment_type |-> environment_type.val])

serialize_env_listing(data) ==
    compress_data(<<Numeral(Len(data))>> \o bincode_descriptions(data))

deserialize_env_listing(data) ==
    LET bytes == decompress_data(data) IN
    read_descriptions(ToNat(Head(bytes)), Tail(bytes))

\* The environments and the listings that are stored.
CodecNames == {EnvTEST, EnvLower, <<>>}
CodecTypes == {Nothing, Some(<<>>), Some(<<"w", "e", "b">>)}
CodecEnvironments ==
    [environment : CodecNames, environment_type : CodecTypes,
     config_data : ConfigData]
Descriptions == [name : CodecNames, environment_type : CodecTypes]
CodecListings ==
    {<<>>} \cup {<<d>> : d \in Descriptions}
           \cup {<<d, f>> : d \in Descriptions, f \in Descriptions}

CodecInit ==
    /\ \/ input \in [kind : {"env"}, data : CodecEnvironments]
       \/ input \in [kind : {"listing"}, data : CodecListings]
    /\ output = <<>>

\* write_env / write_env_listing of a tier: the entry is turned into bytes.
Serialize ==
    /\ output = <<>>
    /\ output' = [stage |-> "bytes",
                  bytes |-> IF input.kind = "env"
                            THEN serialize_env(input.data)
                            ELSE serialize_env_listing(input.data)]
    /\ input' = input
    /\ FnOnly

\* read_env / read_env_listing: the bytes are turned into an entry.
Deserialize ==
    /\ output # <<>> /\ output.stage = "bytes"
    /\ output' = [stage |-> "value", bytes |-> output.bytes,
                  value |-> IF input.kind = "env"
                            THEN deserialize_env(output.bytes)
                            ELSE deserialize_env_listing(output.bytes)]
    /\ input' = input
    /\ FnOnly

CodecSpecInit == HeadInit /\ MultiIdle /\ ServeIdle /\ TiersIdle /\ CodecInit
    /\ WorkerIdle

CodecNext == Serialize \/ Deserialize

CodecSpec == CodecSpecInit /\ [][CodecNext]_vars

Decoded == output # <<>> /\ output.stage = "value"

\* C27: what deserialize_env makes of the bytes of serialize_env(e) has e's
\* name, e's type and a config_data equal to e's; what
\* deserialize_env_listing makes of the bytes of serialize_env_listing(l)
\* is l.
C27_CodecRoundTrip ==
    Decoded =>
        IF input.kind = "env"
        THEN /\ output.value.environment = input.data.environment
             /\ output.value.environment_type = input.data.environment_type
             /\ output.value.config_data = input.data.config_data
        ELSE output.value = input.data

\* An environment with a type and data of two levels has gone through the
\* codec, and its text had seventeen units.
C27_Witness ==
    /\ Decoded /\ input.kind = "env"
    /\ input.data.environment = EnvTEST
    /\ input.data.environment_type = Some(<<"w", "e", "b">>)
    /\ input.data.config_data = Object([k \in JsonKeys |->
          IF k = "a" THEN Array(<<Number(1), Null>>)
          ELSE Object([j \in {"a"} |-> Null])])
    /\ output.value = input.data
    /\ output.bytes[2][1] = "17"

\* ------------------------------------------------------------------------
\* create_error_response (src/app/server.rs) and HoganError (src/error.rs)
\* ------------------------------------------------------------------------

\* An error value: its kind and its fields, those it lacks empty.  The kind
\* Foreign stands for an anyhow::Error that holds no HoganError.
Error(kind, msg, sha, env, branch, param) ==
    [kind |-> kind, msg |-> msg, sha |-> sha, env |-> env,
     branch |-> branch, param |-> param]

Messages == {<<"m1">>, <<"m2">>, <<"m3">>, <<"m4">>}
ErrorShas == {"abcdef0", "abcde", "master"}
ErrorEnvs == {"TEST", "test"}
ErrorBranches == {"master", "feed"}
ErrorParams == {"url", "regex"}

AnyhowErrors ==
    {Error("BadRequest", <<>>, "", "", "", ""),
     Error("InternalTimeout", <<>>, "", "", "", "")}
    \cup {Error("GitError", m, "", "", "", "") : m \in Messages}
    \cup {Error("InvalidTemplate", m, "", "", "", "") : m \in Messages}
    \cup {Error("UnknownError", m, "", "", "", "") : m \in Messages}
    \cup {Error("Foreign", m, "", "", "", "") : m \in Messages}
    \cup {Error("UnknownSHA", <<>>, sha, "", "", "") : sha \in ErrorShas}
    \cup {Error("UnknownBranch", <<>>, "", "", b, "") : b \in ErrorBranches}
    \cup {Error("UnknownEnvironment", <<>>, sha, env, "", "") :
             sha \in ErrorShas, env \in ErrorEnvs}
    \cup {Error("InvalidConfiguration", m, "", "", "", p) :
             m \in Messages, p \in ErrorParams}

\* impl From<anyhow::Error> for HoganError: the HoganError the error holds,
\* or UnknownError with the error's text.
into(e) ==
    IF e.kind = "Foreign"
    THEN Error("UnknownError", <<"Error">> \o e.msg, "", "", "", "")
    ELSE e

\* HttpResponse::X().finish() and HttpResponse::X().json(body).
finish(status) == [status |-> status, body |-> [k \in {} |-> <<>>]]
json(status, body) == [status |-> status, body |-> body]

\* create_error_response after e.into(): the match on the HoganError.
create_error_response(he) ==
    IF he.kind = "BadRequest" THEN finish(502)
    ELSE IF he.kind = "GitError" THEN json(500, [message |-> he.msg])
    ELSE IF he.kind = "UnknownBranch"
    THEN json(404, [branch |-> <<he.branch>>, message |-> <<"Unknown branch">>])
    ELSE IF he.kind = "UnknownSHA"
    THEN json(404, [sha |-> <<he.sha>>, message |-> <<"Unknown sha">>])
    ELSE IF he.kind = "InvalidTemplate" THEN json(400, [message |-> he.msg])
    ELSE IF he.kind = "UnknownEnvironment"
    THEN json(404, [sha |-> <<he.sha>>, environment |-> <<he.env>>,
                    message |-> <<"Unknown Environment">>])
    ELSE IF he.kind = "InternalTimeout" THEN finish(503)
    ELSE finish(500)

\* A handler has failed with an error.
ErrorInit ==
    /\ input \in AnyhowErrors
    /\ output = <<>>

\* let he = e.into();
Into ==
    /\ output = <<>>
    /\ output' = [stage |-> "he", he |-> into(input)]
    /\ input' = input
    /\ FnOnly

\* match he { .. }
Respond ==
    /\ output # <<>> /\ output.stage = "he"
    /\ output' = [stage |-> "response", he |-> output.he,
                  response |-> create_error_response(output.he)]
    /\ input' = input
    /\ FnOnly

ErrorSpecInit == HeadInit /\ MultiIdle /\ ServeIdle /\ TiersIdle /\ ErrorInit
    /\ WorkerIdle

ErrorNext == Into \/ Respond

ErrorSpec == ErrorSpecInit /\ [][ErrorNext]_vars

Responded == output # <<>> /\ output.stage = "response"

\* The response has this status and a body of these keys.
Answers(status, keys) ==
    output.response.status = status /\ DOMAIN output.response.body = keys

\* The rows of the documented table but the one of InvalidTemplate.
OtherRows ==
    /\ input.kind = "UnknownBranch"
          => /\ Answers(404, {"branch", "message"})
             /\ output.response.body["branch"] = <<input.branch>>
    /\ input.kind = "UnknownSHA"
          => /\ Answers(404, {"sha", "message"})
             /\ output.response.body["sha"] = <<input.sha>>
    /\ input.kind = "UnknownEnvironment"
          => /\ Answers(404, {"sha", "environment", "message"})
             /\ output.response.body["sha"] = <<input.sha>>
             /\ output.response.body["environment"] = <<input.env>>
    /\ input.kind = "GitError"
          => /\ Answers(500, {"message"})
             /\ output.response.body["message"] = input.msg
    /\ input.kind = "InternalTimeout" => Answers(503, {})
    /\ input.kind = "BadRequest" => Answers(502, {})
    /\ input.kind \in {"InvalidConfiguration", "UnknownError", "Foreign"}
          => Answers(500, {})

\* C28: create_error_response answers UnknownBranch, UnknownSHA and
\* UnknownEnvironment with 404 and their identifiers and message,
\* InvalidTemplate with 400 and a body of message and environment, GitError
\* with 500 and the message, InternalTimeout with 503 and BadRequest with 502
\* and no body, and every other error, a HoganError or not, with 500 and no
\* body.
C28_ErrorTable ==
    Responded =>
        /\ OtherRows
        /\ input.kind = "InvalidTemplate"
              => /\ Answers(400, {"message", "environment"})
                 /\ output.response.body["message"] = input.msg

\* ------------------------------------------------------------------------
\* impl FromStr for ConfigUrl (src/config.rs): the source of the configs
\* ------------------------------------------------------------------------

\* A string is the sequence of its pieces: the marks ://, :, /, @ and #, the
\* suffix .git, and names.

\* The first position of a piece in a string, or 0.
position(str, piece) ==
    IF \E i \in 1..Len(str) : str[i] = piece
    THEN CHOOSE i \in 1..Len(str) :
             str[i] = piece /\ \A j \in 1..(i - 1) : str[j] # piece
    ELSE 0

\* str.split(mark): the parts between the marks.
RECURSIVE Split(_, _)
Split(str, mark) ==
    LET i == position(str, mark) IN
    IF i = 0 THEN <<str>>
    ELSE <<SubSeq(str, 1, i - 1)>> \o Split(SubSeq(str, i + 1, Len(str)), mark)

\* str::replace(s, ":", "/")
Replace(str, from, to) ==
    [i \in 1..Len(str) |-> IF str[i] = from THEN to ELSE str[i]]

\* s.trim_start_matches(prefix): the prefix is taken off as often as it
\* stands at the start.
RECURSIVE trim_start_matches(_, _)
trim_start_matches(str, prefix) ==
    IF Len(str) >= Len(prefix) /\ SubSeq(str, 1, Len(prefix)) = prefix
    THEN trim_start_matches(SubSeq(str, Len(prefix) + 1, Len(str)), prefix)
    ELSE str

contains(str, piece) == position(str, piece) # 0
ends_with(str, piece) == Len(str) > 0 /\ str[Len(str)] = piece

Schemes == {"file", "https", "ssh"}
Digits == {"22", "443"}

\* Url::parse of a string scheme://[user@]host[:port][/path][#fragment]; a
\* string without a scheme is a relative URL.  path_segments is Nothing for
\* a URL whose path does not start with a slash.
Url_parse(str) ==
    IF ~(Len(str) >= 2 /\ str[1] \in Schemes /\ str[2] = "://")
    THEN [ok |-> FALSE, err |-> "RelativeUrlWithoutBase"]
    ELSE LET rest == SubSeq(str, 3, Len(str))
             h == position(rest, "#")
             main == IF h = 0 THEN rest ELSE SubSeq(rest, 1, h - 1)
             fragment == IF h = 0 THEN Nothing
                         ELSE Some(SubSeq(rest, h + 1, Len(rest)))
             sl == position(main, "/")
             authority == IF sl = 0 THEN main ELSE SubSeq(main, 1, sl - 1)
             path == IF sl = 0 THEN <<>> ELSE SubSeq(main, sl + 1, Len(main))
             at == position(authority, "@")
             user == IF at = 0 THEN <<>> ELSE SubSeq(authority, 1, at - 1)
             hostport == SubSeq(authority, at + 1, Len(authority))
             colon == position(hostport, ":")
             host == IF colon = 0 THEN hostport
                     ELSE SubSeq(hostport, 1, colon - 1)
             port == IF colon = 0 THEN <<>>
                     ELSE SubSeq(hostport, colon + 1, Len(hostport))
         IN  IF \E i \in 1..Len(port) : port[i] \notin Digits
             THEN [ok |-> FALSE, err |-> "InvalidPort"]
             ELSE [ok |-> TRUE,
                   url |-> [scheme |-> str[1], user |-> user, host |-> host,
                            port |-> port,
                            path_segments |->
                                IF sl # 0 THEN Some(Split(path, "/"))
                                ELSE IF str[1] = "ssh" THEN Nothing
                                ELSE Some(<<<<>>>>),
                            fragment |-> fragment]]

\* The mutant takes the last segment that ends in .git.
git_index_Last(path_segments) ==
    LET ends == {i \in 1..Len(path_segments) :
                    ends_with(path_segments[i], ".git")} IN
    IF ends = {} THEN 0
    ELSE CHOOSE i \in ends : \A j \in ends : j <= i

\* path_segments.iter().position(|s| s.ends_with(".git")).map(|i| i + 1):
\* the number of segments up to the first one that ends in .git, 0 for None.
git_index(path_segments) ==
    LET ends == {i \in 1..Len(path_segments) :
                    ends_with(path_segments[i], ".git")} IN
    IF ends = {} THEN 0
    ELSE CHOOSE i \in ends : \A j \in ends : i <= j

InvalidConfiguration(msg) == [kind |-> "InvalidConfiguration", msg |-> msg]

\* ConfigUrl::from_str
RECURSIVE ConfigUrl_from_str(_)
ConfigUrl_from_str(str) ==
    LET u == Url_parse(str) IN
    IF u.ok
    THEN IF u.url.scheme = "file"
         THEN [kind |-> "File",
               path |-> trim_start_matches(str, <<"file", "://">>)]
         ELSE IF u.url.path_segments = Nothing
         THEN InvalidConfiguration("Url cannot be a base")
         ELSE LET path_segments == u.url.path_segments[1]
                  index == git_index(path_segments)
              IN  IF index = 0
                  THEN InvalidConfiguration(
                           "Config Url not a file path, and not a .git URL")
                  ELSE [kind |-> "Git",
                        url |-> [u.url EXCEPT
                                    !.fragment = Nothing,
                                    !.path_segments =
                                        Some(SubSeq(path_segments, 1, index))],
                        branch |-> u.url.fragment,
                        internal_path |->
                            SubSeq(path_segments, index + 1,
                                   Len(path_segments))]
    ELSE IF u.err = "RelativeUrlWithoutBase"
    THEN IF contains(str, ".git")
         THEN ConfigUrl_from_str(<<"ssh", "://">> \o Replace(str, ":", "/"))
         ELSE ConfigUrl_from_str(<<"file", "://">> \o str)
    ELSE [kind |-> "Err", msg |-> u.err]

\* The strings parsed: a path of one to three segments, among them a
\* repository bar.git and a directory .github, after one of the starts of
\* the grammar, with or without a branch.
PathSegments == {<<"foo">>, <<"bar", ".git">>, <<".git", "hub">>, <<"baz">>}
SourcePaths ==
    {<<a>> : a \in PathSegments}
        \cup {<<a, b>> : a \in PathSegments, b \in PathSegments}
        \cup {<<a, b, c>> : a \in PathSegments, b \in PathSegments,
                            c \in PathSegments}

RECURSIVE Slashed(_)
Slashed(segments) ==
    IF Len(segments) = 1 THEN segments[1]
    ELSE segments[1] \o <<"/">> \o Slashed(Tail(segments))

Start(form) ==
    CASE form = "https" -> <<"https", "://", "host", "/">>
      [] form = "https-user" -> <<"https", "://", "user", "@", "host", "/">>
      [] form = "ssh" -> <<"ssh", "://", "git", "@", "host", "/">>
      [] form = "scp" -> <<"git", "@", "host", ":">>
      [] form = "file" -> <<"file", "://">>
      [] form = "absolute" -> <<"/">>
      [] form = "bare" -> <<>>

SourceForms ==
    {"https", "https-user", "ssh", "scp", "file", "absolute", "bare"}
SourceBranches == {Nothing, Some(<<"branch">>)}

\* The string of a source.
Text(src) ==
    Start(src.form) \o Slashed(src.path)
        \o (IF src.branch = Nothing THEN <<>> ELSE <<"#">> \o src.branch[1])

SourceInit ==
    /\ input \in [form : SourceForms, path : SourcePaths, branch : SourceBranches]
    /\ output = <<>>

\* s.parse::<ConfigUrl>()
Parse ==
    /\ output = <<>>
    /\ output' = ConfigUrl_from_str(Text(input))
    /\ input' = input
    /\ FnOnly

SourceSpecInit == HeadInit /\ MultiIdle /\ ServeIdle /\ TiersIdle /\ SourceInit
    /\ WorkerIdle

SourceNext == Parse

SourceSpec == SourceSpecInit /\ [][SourceNext]_vars

Parsed == output # <<>>

\* A string that starts with file://, or a path without .git.
IsFile ==
    \/ input.form = "file"
    \/ /\ input.form \in {"absolute", "bare"}
       /\ \A i \in 1..Len(input.path) : ~contains(input.path[i], ".git")

\* The URL that the string is or is rewritten to: ssh://user@host/path for
\* user@host:path, and ssh:// before a path.
Scheme == IF input.form \in {"https", "https-user"} THEN "https" ELSE "ssh"
User ==
    CASE input.form \in {"ssh", "scp"} -> <<"git">>
      [] input.form = "https-user" -> <<"user">>
      [] OTHER -> <<>>
Host ==
    CASE input.form = "bare" -> input.path[1]
      [] input.form = "absolute" -> <<>>
      [] OTHER -> <<"host">>
UrlPath == IF input.form = "bare" THEN Tail(input.path) ELSE input.path

\* The segments of the URL's path that end in .git.
Repos == {i \in 1..Len(UrlPath) : ends_with(UrlPath[i], ".git")}
FirstRepo == CHOOSE i \in Repos : \A j \in Repos : i <= j

CliEnvironments == <<"TEST", "EMPTY">>
TemplatePaths ==
    <<(<<"Web", ".", "template", ".", "config">>),
      (<<"app", ".", "template", ".", "yaml">>)>>
TemplateContents == {"well-formed", "malformed"}

\* Template::render: the contents rendered with the environment's data, an
\* error for a template that does not render; the path is the template's
\* with template replaced by the environment's name.
Template_render(template, environment) ==
    IF template.contents = "malformed"
    THEN [ok |-> FALSE, path |-> <<>>, contents |-> <<>>]
    ELSE [ok |-> TRUE,
          path |-> Replace(template.path, "template", environment),
          contents |-> <<"rendered", template.path[1], environment>>]

\* The files: path -> contents, for the paths that exist.
WriteAll(files, path, contents) ==
    [q \in DOMAIN files \cup {path} |->
        IF q = path THEN contents ELSE files[q]]

\* The mutant opens an existing file and writes it.
create_new_Opens(files, path, contents) == WriteAll(files, path, contents)

\* OpenOptions::new().write(true).create_new(true).open(path) and
\* write_all: AlreadyExists for a path that exists, which is skipped.
create_new(files, path, contents) ==
    IF path \in DOMAIN files THEN files ELSE WriteAll(files, path, contents)

\* File::create(path)?.write_all(contents): the file is made or emptied.
File_create(files, path, contents) == WriteAll(files, path, contents)

OutputPaths ==
    {Replace(TemplatePaths[j], "template", CliEnvironments[i]) :
        i \in 1..Len(CliEnvironments), j \in 1..Len(TemplatePaths)}
Hamburger == <<"Hamburger.">>

\* A directory of two templates, each of them well-formed or not, in which
\* some of the output files exist already, and the flag.
CliInit ==
    /\ \E c \in [1..Len(TemplatePaths) -> TemplateContents],
          existing \in SUBSET OutputPaths, flag \in BOOLEAN :
          input = [ignore_existing |-> flag,
                   templates |-> [j \in 1..Len(TemplatePaths) |->
                       [path |-> TemplatePaths[j], contents |-> c[j]]],
                   files |-> [q \in existing \cup
                                    {TemplatePaths[j] :
                                        j \in 1..Len(TemplatePaths)} |->
                       IF q \in existing THEN Hamburger ELSE <<"template">>]]
    /\ output = <<>>

\* cli up to the loops: the templates and the environments are loaded.
CliLoad ==
    /\ output = <<>>
    /\ output' = [result |-> "running", files |-> input.files,
                  environment |-> 1, template |-> 1]
    /\ input' = input
    /\ FnOnly

\* One pass of the inner loop: render, then write; an error ends the run,
\* the last pass ends it with Ok.
CliTransform ==
    /\ output # <<>> /\ output.result = "running"
    /\ LET environment == CliEnvironments[output.environment]
           template == input.templates[output.template]
           rendered == Template_render(template, environment)
           last == /\ output.environment = Len(CliEnvironments)
                   /\ output.template = Len(input.templates)
       IN  IF ~rendered.ok
           THEN output' = [output EXCEPT !.result = "Err"]
           ELSE output' =
                  [result |-> IF last THEN "Ok" ELSE "running",
                   files |-> IF input.ignore_existing
                             THEN create_new(output.files, rendered.path,
                                             rendered.contents)
                             ELSE File_create(output.files, rendered.path,
                                              rendered.contents),
                   environment |->
                       IF output.template = Len(input.templates) /\ ~last
                       THEN output.environment + 1 ELSE output.environment,
                   template |->
                       IF output.template = Len(input.templates)
                       THEN (IF last THEN output.template ELSE 1)
                       ELSE output.template + 1]
    /\ input' = input
    /\ FnOnly

CliSpecInit == HeadInit /\ MultiIdle /\ ServeIdle /\ TiersIdle /\ CliInit
    /\ WorkerIdle

CliNext == CliLoad \/ CliTransform

CliSpec == CliSpecInit /\ [][CliNext]_vars

Running == output # <<>> /\ output.result = "running"

\* The pass at hand is for an output file that exists, with the flag set.
Skips ==
    /\ Running /\ input.ignore_existing
    /\ input.templates[output.template].contents = "well-formed"
    /\ Replace(input.templates[output.template].path, "template",
               CliEnvironments[output.environment]) \in DOMAIN output.files

C30_SkipStep == Skips => output'.files = output.files /\ output'.result # "Err"

\* After a run that ended with Ok every output file holds what was
\* rendered for it, but for the files that were there before a run with the
\* flag, which hold what they held.
C30_Outputs ==
    (output # <<>> /\ output.result = "Ok") =>
        \A i \in 1..Len(CliEnvironments), j \in 1..Len(input.templates) :
            LET r == Template_render(input.templates[j], CliEnvironments[i])
            IN  /\ r.path \in DOMAIN output.files
                /\ output.files[r.path] =
                      IF input.ignore_existing /\ r.path \in DOMAIN input.files
                      THEN input.files[r.path]
                      ELSE r.contents

\* C30: the transform command with ignore-existing leaves every output file
\* that exists as it was and goes on without an error, and makes every
\* output file that does not exist with the rendered contents; without the
\* flag every output file holds the rendered contents after a run that
\* succeeded, whatever it held before.
C30_IgnoreExisting == [][C30_SkipStep]_vars /\ []C30_Outputs

\* A run with the flag has ended with Ok: Web.EMPTY.config, which was there,
\* still holds Hamburger., and Web.TEST.config, which was not, was made.
C30_Witness ==
    /\ output # <<>> /\ output.result = "Ok" /\ input.ignore_existing
    /\ <<"Web", ".", "EMPTY", ".", "config">> \in DOMAIN input.files
    /\ <<"Web", ".", "TEST", ".", "config">> \notin DOMAIN input.files
    /\ output.files[<<"Web", ".", "EMPTY", ".", "config">>] = Hamburger
    /\ output.files[<<"Web", ".", "TEST", ".", "config">>] =
           <<"rendered", "Web", "TEST">>

(***************************************************************************)
(* Further claims about the head resolver.                                 *)
(***************************************************************************)
\* The PerformQuery messages of a branch that were dispatched to the worker
\* and that the worker has not answered yet.
Outstanding(b) ==
    {k \in 1..Len(workerMailbox) : workerMailbox[k].branch = b}

\* C31: for each branch at most one PerformQuery is outstanding at the
\* worker, also after a request of the branch timed out in the holder and a
\* new HeadQuery for that branch was accepted.
C31_OneOutstandingPerBranch ==
    \A b \in Branches : Cardinality(Outstanding(b)) <= 1

\* The two maps of the holder have the same branches, and no waiter list is
\* empty.
C38_MapsAgree ==
    /\ DOMAIN queries = DOMAIN request_ids
    /\ \A b \in DOMAIN queries : Len(queries[b]) >= 1

\* One run of the holder's recv leaves the entries of every branch other
\* than the one of its message as they were.
C38_OtherBranchesUntouched ==
    HolderStep =>
        \A b \in Branches \ {Current.branch} :
            /\ (b \in DOMAIN queries) = (b \in DOMAIN queries')
            /\ (b \in DOMAIN request_ids) = (b \in DOMAIN request_ids')
            /\ b \in DOMAIN queries => queries'[b] = queries[b]
            /\ b \in DOMAIN request_ids => request_ids'[b] = request_ids[b]

\* C38: the waiter map and the request-id map of the holder have the same
\* branches, every pending branch has at least one waiter, and the holder's
\* handling of a message of one branch leaves the waiter list and the request
\* id of every other branch unchanged.
C38_HolderMapsInStep ==
    []C38_MapsAgree /\ [][C38_OtherBranchesUntouched]_vars

\* The request of one branch was answered and its entries removed while the
\* other branch is still pending with its waiter and its id.
C38_Witness ==
    \E a, b \in Branches :
        /\ a # b
        /\ a \notin DOMAIN queries /\ a \notin DOMAIN request_ids
        /\ b \in DOMAIN queries /\ b \in DOMAIN request_ids
        /\ \E c \in Clients :
             /\ replies[c] # <<>>
             /\ attached[c] # request_ids[b]
        /\ \E d \in Clients :
             /\ d \in SeqRange(queries[b])
             /\ attached[d] = request_ids[b]

(***************************************************************************)
(* The head query worker and the time, src/app/head_actor.rs: the worker   *)
(* remembers when it last found its repository stale and passes            *)
(* find_branch_head (src/config.rs) whether to fetch.  The time is         *)
(* SystemTime, which can be set back; it is counted in ticks of half a     *)
(* second.                                                                 *)
(***************************************************************************)
MaxClock == 44
MaxPerforms == 2

TicksPerSecond == 2
StaleSeconds == 10

\* The ticks a call of find_branch_head can take.
CallTicks == {0, 3}

\* SystemTime::elapsed: the duration since the time t, an error when the
\* clock is behind t.
elapsed(t) == IF clock >= t THEN <<clock - t>> ELSE <<>>

\* Duration::as_secs: the whole seconds of a duration.
as_secs(d) == d \div TicksPerSecond

\* Mutant: the repository counts as stale whenever the clock can be read.
refresh_Always(last_updated) == elapsed(last_updated) # <<>>

\* let refresh = match self.last_updated.elapsed() { .. }
refresh_of(last_updated) ==
    IF elapsed(last_updated) # <<>>
    THEN as_secs(elapsed(last_updated)[1]) >= StaleSeconds
    ELSE FALSE

\* ConfigDir::find_branch_head: a file source fails before it does anything;
\* a git source fetches when it is told to, fails when the fetch fails, and
\* answers with the head of the branch otherwise.
find_branch_head(config_dir, refreshing, fetchOk, found) ==
    IF config_dir = "File"
    THEN [fetched |-> FALSE, result |-> "GitError"]
    ELSE IF refreshing /\ ~fetchOk
    THEN [fetched |-> TRUE, result |-> "GitError"]
    ELSE [fetched |-> refreshing, result |-> found]

\* init_system: the worker is created with the time of its creation.
WorkerInit ==
    /\ worker \in [config : {"File", "Git"}, last_updated : {0},
                   allow_fetch : BOOLEAN]
    /\ clock = 0
    /\ performed = <<>>

WorkerOnly ==
    UNCHANGED <<multiVars, serveVars, tierVars, fetchVars, routeVars, fnVars>>

\* The holder passes a query on to the worker.
WorkerDispatch(b) ==
    /\ nextId < MaxPerforms
    /\ WorkerOnly
    /\ nextId' = nextId + 1
    /\ workerMailbox' = Append(workerMailbox, PerformQuery(b, nextId + 1))
    /\ UNCHANGED <<queries, request_ids, holderMailbox, timers, asked, replies,
                   attached, performCount, timeoutCount, handled, dropped>>
    /\ UNCHANGED workerVars

\* Time passes.
ClockTick ==
    /\ clock < MaxClock
    /\ WorkerOnly
    /\ clock' = clock + 1
    /\ UNCHANGED <<headVars, worker, performed>>

\* The system time is set back.
ClockSetBack(d) ==
    /\ clock >= d
    /\ WorkerOnly
    /\ clock' = clock - d
    /\ UNCHANGED <<headVars, worker, performed>>

\* HeadQueryWorker::receive with the time: refresh is read from the clock,
\* find_branch_head is called and takes its time, its result is told to the
\* sender, and last_updated is set to the time after the call when refresh
\* was true.
WorkerPerform(fetchOk, found, took) ==
    /\ workerMailbox # <<>>
    /\ clock + took <= MaxClock
    /\ WorkerOnly
    /\ LET m == Head(workerMailbox)
           refreshing == refresh_of(worker.last_updated)
           r == find_branch_head(worker.config, refreshing /\ worker.allow_fetch,
                                 fetchOk, found)
       IN  /\ holderMailbox' =
                  Append(holderMailbox, HeadResult(m.branch, m.id, r.result))
           /\ clock' = clock + took
           /\ worker' = [worker EXCEPT !.last_updated =
                             IF refreshing THEN clock + took ELSE @]
           /\ performed' = [id |-> m.id, refresh |-> refreshing,
                            fetch |-> refreshing /\ worker.allow_fetch,
                            fetched |-> r.fetched]
    /\ workerMailbox' = Tail(workerMailbox)
    /\ UNCHANGED <<queries, request_ids, timers, nextId, asked, replies,
                   attached, performCount, timeoutCount, handled, dropped>>

WorkerSpecInit ==
    /\ HeadInit /\ MultiIdle /\ ServeIdle /\ TiersIdle /\ FnIdle
    /\ WorkerInit

WorkerNext ==
    \/ \E b \in Branches : WorkerDispatch(b)
    \/ ClockTick
    \/ \E d \in {5} : ClockSetBack(d)
    \/ \E fetchOk \in BOOLEAN, found \in WorkerResults, took \in CallTicks :
           WorkerPerform(fetchOk, found, took)

WorkerSpec == WorkerSpecInit /\ [][WorkerNext]_vars

(***************************************************************************)
(* Claims about the head query worker.                                     *)
(***************************************************************************)
\* The step is one run of the worker's receive.
Performs == performed' # performed

\* The ticks of the staleness limit.
StaleTicks == StaleSeconds * TicksPerSecond

\* A fetch is asked of find_branch_head, and made, only with allow_fetch and
\* with the clock at least 10 s past last_updated.
C37_FetchOnlyWhenStale ==
    Performs =>
        /\ performed'.fetch =
              (worker.allow_fetch /\ clock - worker.last_updated >= StaleTicks)
        /\ performed'.fetched => performed'.fetch
        /\ ~worker.allow_fetch => ~performed'.fetch /\ ~performed'.fetched

\* last_updated becomes the time after the call in the Performs where the
\* staleness held, and stays in the others.
C37_AdvancedWhenStale ==
    Performs =>
        worker'.last_updated =
            IF clock - worker.last_updated >= StaleTicks
            THEN clock'
            ELSE worker.last_updated

\* C37: the worker asks find_branch_head to fetch only when at least 10 s
\* have passed since last_updated and allow_fetch is set; last_updated is
\* advanced to the current time exactly in the Performs where the 10 s had
\* passed, so no Perform handled within 10 s after such an advance asks for
\* a fetch, and with allow_fetch unset no Perform ever does.
C37_WorkerFetchesWhenStale ==
    [][C37_FetchOnlyWhenStale /\ C37_AdvancedWhenStale]_vars

\* A Perform that fetched has advanced last_updated, and a later Perform
\* less than 10 s after it did not ask for a fetch.
C37_Witness ==
    /\ performed # <<>>
    /\ worker.allow_fetch /\ worker.config = "Git"
    /\ worker.last_updated >= StaleTicks
    /\ clock - worker.last_updated = StaleTicks - 1
    /\ performed.id = 2
    /\ ~performed.refresh /\ ~performed.fetch /\ ~performed.fetched

(***************************************************************************)
(* The environment lookup while the table can be read: every read of the   *)
(* table before the lock returns what the table holds.  Writes to the      *)
(* table, fetches and the cleanup still fail or succeed.                   *)
(***************************************************************************)
HitNext ==
    \/ \E t \in Threads, r \in EnvRequests : GetEnvCall(t, r[1], r[2])
    \/ \E t \in Threads : ReadDb(t, TRUE)
    \/ \E t \in Threads : InsertFromDb(t)
    \/ \E t \in Threads : AcquireLock(t)
    \/ \E t \in Threads, ok \in BOOLEAN : DoubleCheck(t, ok)
    \/ \E t \in Threads, ok \in BOOLEAN : RefreshEnv(t, ok)
    \/ \E t \in Threads, ok \in BOOLEAN : FindEnv(t, ok)
    \/ \E t \in Threads : InsertFromGit(t)
    \/ \E t \in Threads, raw \in RequestShas : GetEnvListingCall(t, raw)
    \/ \E t \in Threads : ListingDoubleCheck(t)
    \/ \E t \in Threads, ok \in BOOLEAN : RefreshListing(t, ok)
    \/ \E t \in Threads : FindListing(t)
    \/ RowsAge
    \/ \E ok \in BOOLEAN : ExecuteCleanup(ok)

HitSpec == ServeSpecInit /\ [][HitNext]_vars

(***************************************************************************)
(* Further claims about the environment lookup.                            *)
(***************************************************************************)
\* The request thread t takes a step of its call.
Steps(t) == tpc'[t] # tpc[t]

\* The check of the LRU: a key it holds is returned at once.
C32_HitInLru(t) ==
    (/\ tpc[t] = "idle" /\ Steps(t) /\ treq'[t].op = "env"
     /\ LruHas(environments, format_key(treq'[t].sha, treq'[t].env)))
        => /\ tpc'[t] = "done"
           /\ tres'[t] =
                  EnvRes(environments[LruVal(environments,
                             format_key(treq'[t].sha, treq'[t].env))].val, "L1")
           /\ UNCHANGED <<write_lock, refreshed, head, known, db>>

\* The read of the table after the LRU missed: a row it finds is taken.
C32_HitInTable(t) ==
    (/\ tpc[t] = "l2" /\ Steps(t)
     /\ MatchingRows(treq[t].env, treq[t].sha) # {})
        => /\ tpc'[t] = "promote"
           /\ tloc'[t].env \in
                  {decode(r.data) : r \in MatchingRows(treq[t].env, treq[t].sha)}
           /\ UNCHANGED <<write_lock, refreshed, head, known, db>>

\* What the table gave is returned.
C32_ReturnsTableHit(t) ==
    (tpc[t] = "promote" /\ Steps(t))
        => /\ tpc'[t] = "done"
           /\ tres'[t] = EnvRes(tloc[t].env, "L2")
           /\ UNCHANGED <<write_lock, refreshed, head, known, db>>

\* None of these steps waits for write_lock: each can be taken whoever holds
\* the lock, and a call that returned from the LRU or from the first read of
\* the table has neither held the lock nor refreshed.
C32_NoWait ==
    \A t \in Threads :
        /\ tpc[t] = "l2" => ENABLED ReadDb(t, TRUE)
        /\ tpc[t] = "promote" => ENABLED InsertFromDb(t)
        /\ (tres[t].kind = "env" /\ tres[t].src \in {"L1", "L2"})
               => t \notin refreshed /\ write_lock # t

CommitIds == {SubSeq(c, 1, ShaLen) : c \in Commits}

\* The names of the environments of the repository and of the requests.
EnvNames == {EnvTEST, EnvLower}

\* format_sha cuts to seven characters and leaves a shorter sha as it is.
C35_FormatSha ==
    \A raw \in RequestShas \cup {SubSeq(CommitA, 1, n) : n \in 0..Len(CommitA)} :
        /\ Len(raw) >= ShaLen => format_sha(raw) = SubSeq(raw, 1, ShaLen)
        /\ Len(raw) < ShaLen => format_sha(raw) = raw
        /\ format_sha(format_sha(raw)) = format_sha(raw)
        /\ Len(format_sha(raw)) <= ShaLen

\* C35: format_sha returns the first seven characters of a sha of seven or
\* more and a shorter sha unchanged, and the commit id of every key written
\* to the LRU of environments, to the LRU of listings and to the table is
\* the seven-character id of a commit, whatever the caller supplied.
C35_KeysHoldSevenCharacterIds ==
    /\ C35_FormatSha
    /\ \A i \in 1..Len(environments) :
           \E id \in CommitIds, env \in EnvNames :
               environments[i].key = format_key(id, env)
    /\ \A i \in 1..Len(environment_listings) :
           environment_listings[i].key \in CommitIds
    /\ \A r \in db :
           \E id \in CommitIds, env \in EnvNames : r.key = gen_env_key(id, env)

\* The thread u has returned a listing it made after a refresh, under the
\* requested sha, and the LRU of listings still holds that listing.
ListedAfterRefresh(u, sha) ==
    /\ tpc[u] = "done"
    /\ treq[u].op = "listing" /\ treq[u].sha = sha
    /\ tres[u].kind = "listing" /\ tres[u].src = "git"
    /\ \E i \in 1..Len(environment_listings) :
           /\ IsPrefix(sha, environment_listings[i].key)
           /\ environment_listings[i].val = tres[u].val

\* A get_env_listing call for a sha that was listed after a refresh, and is
\* still held, returns the held listing from the LRU at once.
C36_SecondCallIsAHit ==
    \A t \in Threads :
        (/\ tpc[t] = "idle" /\ Steps(t) /\ treq'[t].op = "listing"
         /\ \E u \in Threads \ {t} : ListedAfterRefresh(u, treq'[t].sha))
            => /\ tpc'[t] = "done"
               /\ tres'[t].kind = "listing" /\ tres'[t].src = "L1"
               /\ UNCHANGED <<write_lock, refreshed, head, known>>

\* A caller that waited for write_lock while the listing of its sha was
\* made finds it in the second check and does not refresh.
C36_WaiterFindsListing ==
    \A t \in Threads :
        (/\ tpc[t] = "lsdc" /\ Steps(t)
         /\ \E u \in Threads \ {t} : ListedAfterRefresh(u, treq[t].sha))
            => /\ tpc'[t] = "done"
               /\ tres'[t].kind = "listing" /\ tres'[t].src = "L1dc"
               /\ t \notin refreshed'

\* C36: after a get_env_listing that refreshed and succeeded, a later
\* get_env_listing for the same requested sha is served from the LRU of
\* listings without write_lock and without a second refresh, for shas
\* shorter than, equal to and longer than seven characters; a caller that
\* waited for the lock finds the listing in the second check.
C36_ListingIsCachedUnderRequestedSha ==
    [][C36_SecondCallIsAHit /\ C36_WaiterFindsListing]_vars

(***************************************************************************)
(* The environment lookup with request threads that serve one request      *)
(* after another, and with what the lock and the calls inside it           *)
(* guarantee: parking_lot's Mutex hands the lock to a waiting thread        *)
(* sooner or later although others keep taking it (its unlock is fair from *)
(* time to time), and the reads, the refresh and the find made under the   *)
(* lock return.  Nothing is assumed about requests coming in.              *)
(***************************************************************************)
\* The thread is given its next request.
NextRequest(t) ==
    /\ tpc[t] = "done"
    /\ tpc' = [tpc EXCEPT ![t] = "idle"]
    /\ treq' = [treq EXCEPT ![t] = NoReq]
    /\ tres' = [tres EXCEPT ![t] = NoRes]
    /\ refreshed' = refreshed \ {t}
    /\ UNCHANGED <<environments, environment_listings, db, repoVars,
                   write_lock, tloc, expired>>
    /\ ServeOnly

\* The steps of a call between taking the lock and leaving.
CriticalStep(t) ==
    \/ \E ok \in BOOLEAN : DoubleCheck(t, ok)
    \/ \E ok \in BOOLEAN : RefreshEnv(t, ok)
    \/ \E ok \in BOOLEAN : FindEnv(t, ok)
    \/ InsertFromGit(t)
    \/ ListingDoubleCheck(t)
    \/ \E ok \in BOOLEAN : RefreshListing(t, ok)
    \/ FindListing(t)

ServeLiveNext ==
    \/ \E t \in Threads, r \in EnvRequests : GetEnvCall(t, r[1], r[2])
    \/ \E t \in Threads, ok \in BOOLEAN : ReadDb(t, ok)
    \/ \E t \in Threads : InsertFromDb(t)
    \/ \E t \in Threads : AcquireLock(t)
    \/ \E t \in Threads : CriticalStep(t)
    \/ \E t \in Threads, raw \in RequestShas : GetEnvListingCall(t, raw)
    \/ \E t \in Threads : NextRequest(t)
    \/ \E ok \in BOOLEAN : ExecuteCleanup(ok)

ServeLiveSpec ==
    /\ ServeSpecInit
    /\ [][ServeLiveNext]_vars
    /\ \A t \in Threads : SF_tpc(AcquireLock(t)) /\ WF_tpc(CriticalStep(t))

\* The lock is held exactly while its holder is between lock() and the
\* return.
C39_HeldOnlyInside ==
    /\ write_lock # 0 => write_lock \in Threads /\ InCritical(write_lock)
    /\ \A t \in Threads : tpc[t] \in {"idle", "done"} => write_lock # t

\* Whatever way a call leaves the critical section, the lock is free after.
C39_ReleasedOnExit ==
    \A t \in Threads :
        (InCritical(t) /\ ~InCritical(t)')
            => /\ tpc'[t] = "done"
               /\ write_lock = t /\ write_lock' = 0

\* C39: a get_env or get_env_listing call that took write_lock releases it
\* on every way out (the hit of the second check, the error of refresh,
\* UnknownEnvironment, success), so the lock is never held while no request
\* is in the critical section; and, refresh and find returning, every
\* request that waits for the lock gets it.
C39_WriteLockReleasedAndGranted ==
    /\ []C39_HeldOnlyInside
    /\ [][C39_ReleasedOnExit]_vars
    /\ \A t \in Threads : (tpc[t] \in {"lock", "lslock"}) ~> (write_lock = t)

\* A call left with UnknownEnvironment, and the request that waited behind
\* it now holds the lock.
C39_Witness ==
    \E t, u \in Threads :
        /\ t # u
        /\ tpc[t] = "done" /\ tres[t].kind = "err"
        /\ tres[t].val[1] = "UnknownEnvironment"
        /\ write_lock = u /\ InCritical(u)


(***************************************************************************)
(* Errors in a read of the tiered cache.                                   *)
(***************************************************************************)
\* The walk of a read comes to tier i: no earlier tier holds the key.
ReadReaches(kind, key, i) ==
    /\ i \in 1..Len(caches)
    /\ \A j \in 1..(i - 1) : caches[j][kind][key] = None

\* The read of tier i fails: the call returns that error after the reads of
\* tiers 1..i, no later tier is read and no tier is written.
C33_ReadErrorEndsWalk ==
    \A kind \in {"env", "listing"} : \A key \in KeysOf(kind), f \in Failures :
        (/\ mcLast'.op = "read" /\ mcLast'.kind = kind /\ mcLast'.key = key
         /\ ReadReaches(kind, key, FailRead(f))
         /\ MultiRead(kind, key, f))
            => /\ mcLast'.result = Err("read", FailRead(f))
               /\ mcLast'.log = WalkLog(FailRead(f), 0)
               /\ caches' = caches

\* Tier h is the first hit and the promotion write into tier j < h fails:
\* the call returns that error, not the entry, and writes no tier from j on.
C33_PromotionErrorIsReturned ==
    \A kind \in {"env", "listing"} : \A key \in KeysOf(kind), f \in Failures :
        (/\ mcLast'.op = "read" /\ mcLast'.kind = kind /\ mcLast'.key = key
         /\ HitTiers(kind, key) # {}
         /\ FailWrite(f) \in 1..(Least(HitTiers(kind, key)) - 1)
         /\ MultiRead(kind, key, f))
            => /\ mcLast'.result = Err("write", FailWrite(f))
               /\ mcLast'.result[1] # "hit"
               /\ mcLast'.log = WalkLog(Least(HitTiers(kind, key)), FailWrite(f))
               /\ \A j \in FailWrite(f)..Len(caches) : caches'[j] = caches[j]

\* C33: in MultiCache::read_env and read_env_listing an error of a tier ends
\* the read with that error: after a failed read of tier i no later tier is
\* consulted and nothing is promoted, and after a failed promotion write the
\* call returns that error and not the entry the later tier held.
C33_TierErrorAbortsRead ==
    [][C33_ReadErrorEndsWalk /\ C33_PromotionErrorIsReturned]_vars

\* A read found the entry in the third tier, wrote it into the first, and
\* returned the error of the write into the second.
C33_Witness ==
    /\ mcLast.op = "read"
    /\ mcLast.result = Err("write", 2)
    /\ mcLast.log = WalkLog(3, 2)
    /\ \E kind \in {"env", "listing"} : \E key \in KeysOf(kind) :
          /\ mcLast.kind = kind /\ mcLast.key = key
          /\ caches[1][kind][key] # None
          /\ caches[2][kind][key] = None
          /\ caches[3][kind][key] # None


(***************************************************************************)
(* The lookups of the two tiers by environment name and commit id.         *)
(* Entries are stored under the name TEST; reads ask for that name, for    *)
(* the name in lower case and for names that hold a character the regex    *)
(* or LIKE gives a meaning to.                                             *)
(***************************************************************************)
MaxLookups == 3

EnvDot == <<"T", ".", "S", "T">>
EnvUnderscore == <<"T", "_", "S", "T">>
LookupEnvs == {EnvTEST, EnvLower, EnvDot, EnvUnderscore}

LookupCalls == lruCalls + sqlLast.n

LookupNext ==
    \/ \E n \in 0..MaxLruSize : LruNew(n)
    \/ \E sha \in LruShas, d \in Payloads :
          LookupCalls < MaxLookups /\ LruWriteEnv(sha, d, FALSE)
    \/ \E env \in LookupEnvs, sha \in LruReadShas :
          LookupCalls < MaxLookups /\ LruRead("env", env, sha, FALSE)
    \/ \E p \in Producers, sha \in SqlShas, d \in Payloads :
          LookupCalls < MaxLookups /\ SqlOpenForWrite(p, "env", sha, d, TRUE)
    \/ \E p \in Producers : SqlInsert(p)
    \/ \E env \in LookupEnvs, sha \in SqlReadShas :
          /\ LookupCalls < MaxLookups
          /\ SqlReadKey("env", sql_gen_env_key(sha, env), TRUE)

LookupSpec == SqlSpecInit /\ [][LookupNext]_vars

\* The key k of the LRU was made by gen_env_key for the name env and an id
\* that begins with sha.
LruStoredUnder(env, sha, k) ==
    /\ IsPrefix(sha, k)
    /\ IsSuffix(Sep \o env, k)
    /\ Len(k) >= Len(sha) + Len(Sep \o env)

\* The key k of the table was made by gen_env_key for the name env and an
\* id that begins with sha.
SqlStoredUnder(env, sha, k) == IsPrefix(sql_gen_env_key(sha, env), k)

\* read_env of the LRU tier: a held entry of env under an id that begins
\* with sha makes the read a hit, and the entry a hit returns is one of env
\* under such an id.
C34_LruLookup ==
    \A env \in LookupEnvs, sha \in LruReadShas :
        LruRead("env", env, sha, FALSE)
            => /\ (\E i \in 1..Len(lru.env) : LruStoredUnder(env, sha, lru.env[i].key))
                    => lruLast'.result[1] = "hit"
               /\ lruLast'.result[1] = "hit"
                    => LruStoredUnder(env, sha, lruLast'.key)

\* read_env of the table, likewise.
C34_SqlLookup ==
    \A env \in LookupEnvs, sha \in SqlReadShas :
        SqlReadKey("env", sql_gen_env_key(sha, env), TRUE)
            => /\ (\E r \in table : SqlStoredUnder(env, sha, r.key))
                    => sqlLast'.result # None
               /\ sqlLast'.result # None
                    => \E r \in table :
                          /\ SqlStoredUnder(env, sha, r.key)
                          /\ sqlLast'.result = deserialize("env", r.data)

\* C34: in both tiers read_env(env, sha) is a hit whenever an entry stored
\* under (env, s) with sha a prefix of s is held, and every entry it returns
\* was stored under exactly the name env, letter case included and no
\* character of env or sha read as a wildcard, and under an id of which sha
\* is a prefix.
C34_ReadEnvMatchesByPrefixOnly == [][C34_LruLookup /\ C34_SqlLookup]_vars

\* The same for reads that ask for the name as it was stored.
C34_LruLookupOfStoredName ==
    \A sha \in LruReadShas :
        LruRead("env", EnvTEST, sha, FALSE)
            => /\ (\E i \in 1..Len(lru.env) :
                      LruStoredUnder(EnvTEST, sha, lru.env[i].key))
                    => lruLast'.result[1] = "hit"
               /\ lruLast'.result[1] = "hit"
                    => LruStoredUnder(EnvTEST, sha, lruLast'.key)


(***************************************************************************)
(* clean on the two tiers: the table and the LRU are written and cleaned   *)
(* while the clock of the database advances.                               *)
(***************************************************************************)
MaxCleanCalls == 3

CleanCalls == lruCalls + sqlLast.n

\* The rows are written by one producer, one write at a time.
CleanWriter == "p1"

CleanNext ==
    \/ \E n \in 0..MaxLruSize : LruNew(n)
    \/ \E sha \in SqlShas, d \in Payloads :
          CleanCalls < MaxCleanCalls /\ LruWriteEnv(sha, d, FALSE)
    \/ \E D \in MaxAges : CleanCalls < MaxCleanCalls /\ LruClean(D)
    \/ \E kind \in SqlKinds, sha \in SqlShas, d \in Payloads :
          /\ CleanCalls < MaxCleanCalls
          /\ SqlOpenForWrite(CleanWriter, kind, sha, d, TRUE)
    \/ SqlInsert(CleanWriter)
    \/ \E D \in MaxAges, ok \in BOOLEAN :
          CleanCalls < MaxCleanCalls /\ SqlClean(D, ok)
    \/ SqlTick

CleanSpec == SqlSpecInit /\ [][CleanNext]_vars

\* A clean(D) of the table at the time now: every row it finds is deleted
\* or kept as it is, and the rows written at now - D days or later are kept.
C40_SqlCleanStep ==
    (SqlReturned /\ sqlLast'.op = "clean")
        => /\ table' \subseteq table
           /\ \A r \in table :
                 Instant(r.timestamp) >= now - sqlLast'.key * TicksPerDay
                    => r \in table'

\* A clean of the LRU tier leaves both of its maps as they were.
C40_LruCleanStep ==
    (lruCalls' = lruCalls + 1 /\ lruLast'.op = "clean")
        => /\ lru' = lru
           /\ lruTouched' = lruTouched

\* C40: a clean(D) of the sqlite tier at the time now deletes no row whose
\* timestamp is now - D days or later and changes neither key, data nor
\* timestamp of a row it keeps; a clean of the LRU tier changes nothing.
C40_CleanKeepsNewerRows == [][C40_SqlCleanStep /\ C40_LruCleanStep]_vars

\* A clean(1) has deleted a row and kept the row written exactly one day
\* before it.
C40_Witness ==
    /\ sqlLast.op = "clean" /\ sqlLast.result = Ok /\ sqlLast.key = 1
    /\ sqlLast.n = 3
    /\ Cardinality(table) = 1
    /\ \E r \in table : Instant(r.timestamp) = now - TicksPerDay

Spec == HeadSpec
====
